---------------------------- MODULE Spec2Model ----------------------------
(***************************************************************************)
(* AgroYield CRUD service: the record endpoints of the MongoDB router      *)
(* (app/routers/mongodb.py) and of the PostgreSQL router                   *)
(* (app/routers/postgres.py), over the stores they read and write.         *)
(*                                                                         *)
(* A handler is a sequence of storage calls.  Each storage call is one     *)
(* step of the pure step functions MongoStep / PgStep; the sequential      *)
(* specification runs a handler to completion in one action, the           *)
(* concurrent specifications interleave the steps of several requests.     *)
(***************************************************************************)
EXTENDS Integers, Sequences, FiniteSets, TLC

VARIABLES
    backend,             \* which router/store pair this behaviour is about
    states,              \* states collection/table: row id = position, value = name
    crops,               \* crops collection/table
    seasons,             \* seasons collection/table
    crop_yield_records,  \* set of fact records
    audit_log,           \* audit_log collection / audits table, oldest first
    nextId,              \* next fact-record id the store hands out
    last,                \* the last completed request: operation, status, and
                         \* what was true of the store when it arrived
    faults,              \* storage calls that have raised so far
    checked_out,         \* connections of the PostgreSQL pool handed out and not
                         \* yet given back
    mirror,              \* the PostgreSQL store and its last status, when the
                         \* same requests are sent to both routers
    procs,               \* per in-flight request: the handler's local variables
    database             \* the module globals of app/database.py

vars == <<backend, states, crops, seasons, crop_yield_records, audit_log,
          nextId, last, faults, checked_out, mirror, procs, database>>

---------------------------------------------------------------------------
(* Bounds of the model *)

\* at most this many fact records are ever inserted
MaxRecords == 2
\* at most this many audit entries are ever written
MaxAudit == 3
\* at most this many storage calls raise in one behaviour
MaxFaults == 1

---------------------------------------------------------------------------
(* Values *)

\* Python None for a numeric request field
None == -1

\* names are character sequences, so that whitespace is visible
Assam      == <<"A">>
AssamPad   == <<" ", "A">>
Rice       == <<"R">>
Kharif     == <<"K">>
Wheat      == <<"W">>
NoName     == <<>>

StateNames  == {Assam, AssamPad}
CropNames   == {Rice}
SeasonNames == {Kharif}
Years       == {2020, 2021}
Areas       == {10, 20}

\* the requests in flight in the concurrent specifications
Procs == {1, 2}

\* the status codes the handlers raise for the four error kinds
StatusInvalid == 400
StatusNotFound == 404
StatusConflict == 409
StatusInternal == 500

\* the status of a body the request model refuses (FastAPI validation error)
StatusRejected == 422

\* Field(..., ge=1990, le=2030)
YearMin == 1990
YearMax == 2030

\* Query(10, ge=1, le=100): the page size when none is given, and the largest
LimitDefault == 10
LimitMax == 100

\* the query string of a list request that gives no parameter
NoQuery == [limit |-> None, offset |-> 0, state |-> <<>>, crop |-> <<>>,
            year |-> None]

\* A reference to lookup row i is stored either as the string str(_id), for
\* which the model writes i, or as the ObjectId itself, for which it writes
\* OidTag + i: the two never compare equal
OidTag == 1000

\* "no document": find_one returned None
NoDoc == [id |-> 0, state_id |-> 0, crop_id |-> 0, season_id |-> 0,
          year |-> 0, area |-> None]

\* an empty dict
EmptyDict == [k \in {} |-> 0]

Min(S) == CHOOSE x \in S : \A y \in S : x <= y


---------------------------------------------------------------------------
(* Requests *)

\* body of POST /records/ (MongoCropYieldRecordCreate / CropYieldRecordCreate)
CreateReqs ==
    [state_name : StateNames, crop_name : CropNames, season_name : SeasonNames,
     year : Years, area : Areas]

\* body of PUT /records/{id}: every field optional
AllUpdateReqs ==
    [state_name : StateNames \cup {NoName}, crop_name : CropNames \cup {NoName},
     season_name : SeasonNames \cup {NoName}, year : Years \cup {None},
     area : Areas \cup {None}]

\* the fields a PUT body supplies
Supplied(req) ==
    {f \in {"state_name", "crop_name", "season_name"} : req[f] # NoName}
        \cup {f \in {"year", "area"} : req[f] # None}

\* the combinations of supplied fields the model sends: the empty body, every
\* single field, and the pairs that move a record's tuple or its measurement
UpdateFieldSets ==
    {{}, {"state_name"}, {"crop_name"}, {"season_name"}, {"year"}, {"area"},
     {"state_name", "year"}, {"year", "area"}}

UpdateReqs == {req \in AllUpdateReqs : Supplied(req) \in UpdateFieldSets}

\* the bodies sent concurrently
ConcCreateReqs == {req \in CreateReqs : req.state_name = Assam /\ req.area = 10}

NoReq == [state_name |-> NoName, crop_name |-> NoName, season_name |-> NoName,
          year |-> None, area |-> None]

\* record ids a request may name
RecordIds == 1..MaxRecords

---------------------------------------------------------------------------
(* Store and handler-local state *)

\* the store as one value
DB == [states |-> states, crops |-> crops, seasons |-> seasons,
       records |-> crop_yield_records, audit |-> audit_log, nextId |-> nextId,
       out |-> checked_out]

\* a store nothing was written to
EmptyStore == [states |-> <<>>, crops |-> <<>>, seasons |-> <<>>,
               records |-> {}, audit |-> <<>>, nextId |-> 1, out |-> 0]

\* the second store of a run that sends each request to both routers: nothing
\* sent yet
NoMirror == [db |-> EmptyStore, status |-> 0, named |-> FALSE,
             early |-> FALSE, differ |-> FALSE]

\* local variables of a handler invocation
Idle == [op |-> "none", req |-> NoReq, rid |-> 0, pc |-> "idle",
         state_id |-> 0, crop_id |-> 0, season_id |-> 0,
         existing_doc |-> NoDoc, update_doc |-> EmptyDict,
         inserted_id |-> 0, pending |-> NoDoc, raised |-> FALSE, status |-> 0,
         conn |-> FALSE, cursor |-> FALSE]

\* dict helpers
Put(d, k, v) == [x \in (DOMAIN d) \cup {k} |-> IF x = k THEN v ELSE d[x]]
Get(d, k, default) == IF k \in DOMAIN d THEN d[k] ELSE default

\* a handler left with an HTTP status
Respond(db, l, code) == [db |-> db, l |-> [l EXCEPT !.status = code, !.pc = "done"]]
Goto(db, l, label) == [db |-> db, l |-> [l EXCEPT !.pc = label]]

---------------------------------------------------------------------------
(* Storage primitives of the document store *)

\* collection.find_one({name_field: name}): id of the first row with that
\* exact name, 0 when there is none
FindOne(rows, name) ==
    IF \E i \in 1..Len(rows) : rows[i] = name
    THEN Min({i \in 1..Len(rows) : rows[i] = name})
    ELSE 0

\* crop_yield_records.find_one({"_id": id})
FindById(records, id) ==
    IF \E d \in records : d.id = id
    THEN CHOOSE d \in records : d.id = id
    ELSE NoDoc

\* the documents matching {state_id, crop_id, season_id, year}
WithTuple(records, s, c, se, y) ==
    {d \in records : d.state_id = s /\ d.crop_id = c /\ d.season_id = se /\ d.year = y}

\* $set: the document with the keys of update_doc overwritten
ApplySet(doc, update_doc) ==
    [k \in DOMAIN doc |-> IF k \in DOMAIN update_doc THEN update_doc[k] ELSE doc[k]]

\* db.audit_log.insert_one(...)
AuditEntry(operation, document_id) ==
    [operation |-> operation, collection |-> "crop_yield_records",
     document_id |-> document_id]

---------------------------------------------------------------------------
(* MongoDB router: create_record, update_record, delete_record             *)

\* mutant: the lookup result is ignored, a row is inserted every time
MongoFindDim_AlwaysInsert(db, l, kind, name, idField, insertPc, nextPc) ==
    Goto(db, l, insertPc)

\* find_one on a lookup collection, then insert_one when nothing was found
\* (create_record: the three "if not ..._doc" blocks).  kind names the
\* collection, name the request's name, idField the local that receives the id.
MongoFindDim(db, l, kind, name, idField, insertPc, nextPc) ==
    LET i == FindOne(db[kind], name) IN
    IF i = 0
    THEN Goto(db, l, insertPc)
    ELSE [db |-> db, l |-> [l EXCEPT ![idField] = i, !.pc = nextPc]]

\* mutant: the id is taken without the row being inserted
MongoInsertDim_IdOnly(db, l, kind, name, idField, nextPc) ==
    [db |-> db, l |-> [l EXCEPT ![idField] = Len(db[kind]) + 1, !.pc = nextPc]]

MongoInsertDim(db, l, kind, name, idField, nextPc) ==
    [db |-> [db EXCEPT ![kind] = Append(@, name)],
     l  |-> [l EXCEPT ![idField] = Len(db[kind]) + 1, !.pc = nextPc]]

\* mutant: create_record without the existence check
MongoFindExisting_Unchecked(db, l) == FALSE

\* existing = db.crop_yield_records.find_one({state_id, crop_id, season_id, year})
MongoFindExisting(db, l) ==
    WithTuple(db.records, l.state_id, l.crop_id, l.season_id, l.req.year) # {}

\* record_doc of create_record
MongoRecordDoc(l, id) ==
    [id |-> id, state_id |-> l.state_id, crop_id |-> l.crop_id,
     season_id |-> l.season_id, year |-> l.req.year, area |-> l.req.area]

\* mutant: insert_one against a unique index on the tuple stores nothing when
\* the tuple is taken
MongoInsertOne_UniqueIndex(db, doc) ==
    IF WithTuple(db.records, doc.state_id, doc.crop_id, doc.season_id, doc.year) # {}
    THEN db
    ELSE [db EXCEPT !.records = @ \cup {doc}, !.nextId = @ + 1]

\* db.crop_yield_records.insert_one(record_doc): the collection has no unique
\* index, the document is stored under a fresh _id
MongoInsertOne(db, doc) ==
    [db EXCEPT !.records = @ \cup {doc}, !.nextId = @ + 1]

\* mutant: log_audit writes nothing
MongoLogAudit_Skipped(db, operation, id) == db

\* log_audit(operation, "crop_yield_records", id, changes)
MongoLogAudit(db, operation, id) ==
    [db EXCEPT !.audit = Append(@, AuditEntry(operation, id))]

MongoCreateStep(db, l) ==
    CASE l.pc = "c_find_state" ->
            MongoFindDim(db, l, "states", l.req.state_name, "state_id",
                         "c_insert_state", "c_find_crop")
      [] l.pc = "c_insert_state" ->
            MongoInsertDim(db, l, "states", l.req.state_name, "state_id", "c_find_crop")
      [] l.pc = "c_find_crop" ->
            MongoFindDim(db, l, "crops", l.req.crop_name, "crop_id",
                         "c_insert_crop", "c_find_season")
      [] l.pc = "c_insert_crop" ->
            MongoInsertDim(db, l, "crops", l.req.crop_name, "crop_id", "c_find_season")
      [] l.pc = "c_find_season" ->
            MongoFindDim(db, l, "seasons", l.req.season_name, "season_id",
                         "c_insert_season", "c_find_existing")
      [] l.pc = "c_insert_season" ->
            MongoInsertDim(db, l, "seasons", l.req.season_name, "season_id",
                           "c_find_existing")
      [] l.pc = "c_find_existing" ->
            IF MongoFindExisting(db, l)
            THEN Respond(db, l, 409)
            ELSE Goto(db, l, "c_insert_record")
      [] l.pc = "c_insert_record" ->
            [db |-> MongoInsertOne(db, MongoRecordDoc(l, db.nextId)),
             l  |-> [l EXCEPT !.inserted_id = db.nextId, !.pc = "c_audit"]]
      [] l.pc = "c_audit" ->
            Goto(MongoLogAudit(db, "INSERT", l.inserted_id), l, "c_find_created")
      [] l.pc = "c_find_created" ->
            \* created_doc["_id"] raises when the document is gone: 500
            IF FindById(db.records, l.inserted_id) = NoDoc
            THEN Respond(db, l, 500)
            ELSE Respond(db, l, 201)

\* update_record, lines 293-315: the scalar fields that are not None go into
\* update_doc; an empty update_doc is 400
MongoScalarFields(l) ==
    LET d1 == IF l.req.year # None THEN Put(l.update_doc, "year", l.req.year)
              ELSE l.update_doc
    IN  IF l.req.area # None THEN Put(d1, "area", l.req.area) ELSE d1

\* mutant: update_record without the "No fields provided" test
MongoAfterDims_AllowEmpty(db, l) ==
    [db |-> db, l |-> [l EXCEPT !.update_doc = MongoScalarFields(l),
                                !.pc = "u_find_duplicate"]]

MongoAfterDims(db, l) ==
    LET ud == MongoScalarFields(l) IN
    IF DOMAIN ud = {}
    THEN Respond(db, l, 400)
    ELSE [db |-> db, l |-> [l EXCEPT !.update_doc = ud, !.pc = "u_find_duplicate"]]

\* update_record: "if record_update.<name>:" then find_one / insert_one, the id
\* going into update_doc
MongoUpdFindDim(db, l, kind, name, key, insertPc, nextPc) ==
    IF name = NoName
    THEN Goto(db, l, nextPc)
    ELSE LET i == FindOne(db[kind], name) IN
         IF i = 0
         THEN Goto(db, l, insertPc)
         ELSE [db |-> db,
               l  |-> [l EXCEPT !.update_doc = Put(@, key, i), !.pc = nextPc]]

MongoUpdInsertDim(db, l, kind, name, key, nextPc) ==
    [db |-> [db EXCEPT ![kind] = Append(@, name)],
     l  |-> [l EXCEPT !.update_doc = Put(@, key, Len(db[kind]) + 1), !.pc = nextPc]]

\* mutant: the duplicate query uses the record's current tuple, not the
\* tuple it would have after the update
MongoFindDuplicate_CurrentTuple(db, l) ==
    \E d \in WithTuple(db.records, l.existing_doc.state_id, l.existing_doc.crop_id,
                       l.existing_doc.season_id, l.existing_doc.year) : d.id # l.rid

\* duplicate = find_one({state_id, crop_id, season_id, year, "_id": {"$ne": obj_id}})
\* with the unsupplied parts of the tuple taken from existing_doc
MongoFindDuplicate(db, l) ==
    LET s  == Get(l.update_doc, "state_id", l.existing_doc.state_id)
        c  == Get(l.update_doc, "crop_id", l.existing_doc.crop_id)
        se == Get(l.update_doc, "season_id", l.existing_doc.season_id)
        y  == Get(l.update_doc, "year", l.existing_doc.year)
    IN  \E d \in WithTuple(db.records, s, c, se, y) : d.id # l.rid

\* result.modified_count of update_one({"_id": obj_id}, {"$set": update_doc}):
\* 1 when a document matched and $set changed it, 0 otherwise
MongoModifiedCount(db, l) ==
    LET doc == FindById(db.records, l.rid) IN
    IF doc # NoDoc /\ ApplySet(doc, l.update_doc) # doc THEN 1 ELSE 0

MongoUpdateOne(db, l) ==
    LET doc == FindById(db.records, l.rid) IN
    IF doc = NoDoc THEN db
    ELSE [db EXCEPT !.records = (@ \ {doc}) \cup {ApplySet(doc, l.update_doc)}]

MongoUpdateStep(db, l) ==
    CASE l.pc = "u_find_target" ->
            LET doc == FindById(db.records, l.rid) IN
            IF doc = NoDoc
            THEN Respond(db, l, 404)
            ELSE [db |-> db, l |-> [l EXCEPT !.existing_doc = doc, !.pc = "u_find_state"]]
      [] l.pc = "u_find_state" ->
            MongoUpdFindDim(db, l, "states", l.req.state_name, "state_id",
                            "u_insert_state", "u_find_crop")
      [] l.pc = "u_insert_state" ->
            MongoUpdInsertDim(db, l, "states", l.req.state_name, "state_id", "u_find_crop")
      [] l.pc = "u_find_crop" ->
            MongoUpdFindDim(db, l, "crops", l.req.crop_name, "crop_id",
                            "u_insert_crop", "u_find_season")
      [] l.pc = "u_insert_crop" ->
            MongoUpdInsertDim(db, l, "crops", l.req.crop_name, "crop_id", "u_find_season")
      [] l.pc = "u_find_season" ->
            LET r == MongoUpdFindDim(db, l, "seasons", l.req.season_name, "season_id",
                                     "u_insert_season", "u_build")
            IN  IF r.l.pc = "u_build" THEN MongoAfterDims(r.db, r.l) ELSE r
      [] l.pc = "u_insert_season" ->
            LET r == MongoUpdInsertDim(db, l, "seasons", l.req.season_name, "season_id",
                                       "u_build")
            IN  MongoAfterDims(r.db, r.l)
      [] l.pc = "u_find_duplicate" ->
            IF MongoFindDuplicate(db, l)
            THEN Respond(db, l, 409)
            ELSE Goto(db, l, "u_update_one")
      [] l.pc = "u_update_one" ->
            IF MongoModifiedCount(db, l) = 0
            THEN Respond(MongoUpdateOne(db, l), l, 404)
            ELSE Goto(MongoUpdateOne(db, l), l, "u_audit")
      [] l.pc = "u_audit" ->
            Goto(MongoLogAudit(db, "UPDATE", l.rid), l, "u_find_updated")
      [] l.pc = "u_find_updated" ->
            IF FindById(db.records, l.rid) = NoDoc
            THEN Respond(db, l, 500)
            ELSE Respond(db, l, 200)

\* mutant: the delete is not applied before the audit entry is written
MongoDeleteOne_NotApplied(db, id) == db

\* delete_one({"_id": obj_id})
MongoDeleteOne(db, id) ==
    [db EXCEPT !.records = {d \in @ : d.id # id}]

\* mutant: delete_record without the two existence checks
MongoDeleteStep_NoExistenceCheck(db, l) ==
    CASE l.pc = "d_find" -> Goto(db, l, "d_delete_one")
      [] l.pc = "d_delete_one" -> Goto(MongoDeleteOne(db, l.rid), l, "d_audit")
      [] l.pc = "d_audit" -> Respond(MongoLogAudit(db, "DELETE", l.rid), l, 204)

MongoDeleteStep(db, l) ==
    CASE l.pc = "d_find" ->
            LET doc == FindById(db.records, l.rid) IN
            IF doc = NoDoc
            THEN Respond(db, l, 404)
            ELSE [db |-> db, l |-> [l EXCEPT !.existing_doc = doc, !.pc = "d_delete_one"]]
      [] l.pc = "d_delete_one" ->
            \* deleted_count == 0: the document went away in between
            IF FindById(db.records, l.rid) = NoDoc
            THEN Respond(db, l, 404)
            ELSE Goto(MongoDeleteOne(db, l.rid), l, "d_audit")
      [] l.pc = "d_audit" ->
            Respond(MongoLogAudit(db, "DELETE", l.rid), l, 204)

MongoStep(db, l) ==
    CASE l.op = "create" -> MongoCreateStep(db, l)
      [] l.op = "update" -> MongoUpdateStep(db, l)
      [] l.op = "delete" -> MongoDeleteStep(db, l)

\* mutant: the names are resolved before the target is looked up
StartUpdate_ResolveFirst(id, req) ==
    [Idle EXCEPT !.op = "update", !.req = req, !.rid = id, !.pc = "u_find_state"]

\* entry of the three handlers
StartCreate(req) == [Idle EXCEPT !.op = "create", !.req = req, !.pc = "c_find_state"]
StartUpdate(id, req) ==
    [Idle EXCEPT !.op = "update", !.req = req, !.rid = id, !.pc = "u_find_target"]
StartDelete(id) == [Idle EXCEPT !.op = "delete", !.rid = id, !.pc = "d_find"]

---------------------------------------------------------------------------
(* PostgreSQL store: schema objects the router relies on                   *)

\* str.strip() / TRIM: the name without leading and trailing blanks
RECURSIVE TrimLeft(_)
TrimLeft(name) ==
    IF name # <<>> /\ Head(name) = " " THEN TrimLeft(Tail(name)) ELSE name

RECURSIVE TrimRight(_)
TrimRight(name) ==
    IF name # <<>> /\ name[Len(name)] = " "
    THEN TrimRight(SubSeq(name, 1, Len(name) - 1))
    ELSE name

Trim(name) == TrimRight(TrimLeft(name))

\* INSERT INTO <lookup> (name) VALUES (strip(name)) ON CONFLICT (name) DO NOTHING
\* (import_lookup_tables): the only writer of the relational lookup tables
ImportLookupRow(rows, raw) ==
    IF FindOne(rows, Trim(raw)) # 0 THEN rows ELSE Append(rows, Trim(raw))

\* AFTER INSERT/UPDATE/DELETE trigger on crop_yield_records: one audits row,
\* in the transaction of the statement
AuditTrigger(db, operation, id) ==
    [db EXCEPT !.audit = Append(@, AuditEntry(operation, id))]

\* mutant: the procedure inserts without the uniqueness check
SpInsertCropYieldRecord_NoUniqueCheck(db, req) ==
    LET s  == FindOne(db.states, Trim(req.state_name))
        c  == FindOne(db.crops, Trim(req.crop_name))
        se == FindOne(db.seasons, Trim(req.season_name))
    IN  IF s = 0 \/ c = 0 \/ se = 0
        THEN [raised |-> "Error", doc |-> NoDoc]
        ELSE [raised |-> "none",
              doc |-> [id |-> db.nextId, state_id |-> s, crop_id |-> c,
                       season_id |-> se, year |-> req.year, area |-> req.area]]

\* mutant: the procedure does not validate the state name
SpInsertCropYieldRecord_NoValidation(db, req) ==
    LET s  == FindOne(db.states, Trim(req.state_name))
        c  == FindOne(db.crops, Trim(req.crop_name))
        se == FindOne(db.seasons, Trim(req.season_name))
    IN  IF c = 0 \/ se = 0
        THEN [raised |-> "Error", doc |-> NoDoc]
        ELSE IF WithTuple(db.records, s, c, se, req.year) # {}
        THEN [raised |-> "UniqueViolation", doc |-> NoDoc]
        ELSE [raised |-> "none",
              doc |-> [id |-> db.nextId, state_id |-> s, crop_id |-> c,
                       season_id |-> se, year |-> req.year, area |-> req.area]]

\* sp_insert_crop_yield_record(state_name, crop_name, season_name, crop_year, ...):
\* looks the three names up (trimmed), raises when one has no row, raises
\* unique_violation when the tuple is taken, else inserts and returns the id
SpInsertCropYieldRecord(db, req) ==
    LET s  == FindOne(db.states, Trim(req.state_name))
        c  == FindOne(db.crops, Trim(req.crop_name))
        se == FindOne(db.seasons, Trim(req.season_name))
    IN  IF s = 0 \/ c = 0 \/ se = 0
        THEN [raised |-> "Error", doc |-> NoDoc]
        ELSE IF WithTuple(db.records, s, c, se, req.year) # {}
        THEN [raised |-> "UniqueViolation", doc |-> NoDoc]
        ELSE [raised |-> "none",
              doc |-> [id |-> db.nextId, state_id |-> s, crop_id |-> c,
                       season_id |-> se, year |-> req.year, area |-> req.area]]

\* UNIQUE (state_id, crop_id, season_id, crop_year) checked by UPDATE: another
\* row already has the tuple of the new row version
UniqueViolatedBy(db, doc) ==
    \E d \in WithTuple(db.records, doc.state_id, doc.crop_id, doc.season_id, doc.year) :
        d.id # doc.id

---------------------------------------------------------------------------
(* PostgreSQL router: create_record, update_record, delete_record          *)

\* mutant: no "except UniqueViolation" clause, the error falls to psycopg2.Error
PgErrorStatus_NoConflict(raised) ==
    IF raised = "IntegrityError" THEN 400 ELSE 500

\* the except clauses of create_record / update_record: exception class to status
PgErrorStatus(raised) ==
    CASE raised = "UniqueViolation" -> 409
      [] raised = "IntegrityError"  -> 400
      [] OTHER                      -> 500

PgCreateStep(db, l) ==
    CASE l.pc = "p_call_sp" ->
            LET r == SpInsertCropYieldRecord(db, l.req) IN
            IF r.raised # "none"
            THEN \* conn.rollback(): nothing of the call stays
                 Respond(db, l, PgErrorStatus(r.raised))
            ELSE [db |-> [db EXCEPT !.nextId = @ + 1],
                  l  |-> [l EXCEPT !.pending = r.doc, !.inserted_id = r.doc.id,
                                   !.pc = "p_commit"]]
      [] l.pc = "p_commit" ->
            Goto(AuditTrigger([db EXCEPT !.records = @ \cup {l.pending}],
                              "INSERT", l.inserted_id),
                 [l EXCEPT !.pending = NoDoc], "p_select")
      [] l.pc = "p_select" ->
            IF FindById(db.records, l.inserted_id) = NoDoc
            THEN Respond(db, l, 404)
            ELSE Respond(db, l, 201)

\* update_record: "SELECT <dim>_id FROM <dims> WHERE <dim>_name = %s" for a
\* supplied name; no row is 400
PgUpdSelectDim(db, l, kind, name, key, nextPc) ==
    IF name = NoName
    THEN Goto(db, l, nextPc)
    ELSE LET i == FindOne(db[kind], name) IN
         IF i = 0
         THEN Respond(db, l, 400)
         ELSE [db |-> db,
               l  |-> [l EXCEPT !.update_doc = Put(@, key, i), !.pc = nextPc]]

\* update_record, lines 323-352: the scalar fields that are not None; no
\* field at all is 400
PgAfterDims(db, l) ==
    LET ud == MongoScalarFields(l) IN
    IF DOMAIN ud = {}
    THEN Respond(db, l, 400)
    ELSE [db |-> db, l |-> [l EXCEPT !.update_doc = ud, !.pc = "pu_update"]]

PgUpdateStep(db, l) ==
    CASE l.pc = "pu_select_target" ->
            IF FindById(db.records, l.rid) = NoDoc
            THEN Respond(db, l, 404)
            ELSE Goto(db, l, "pu_select_state")
      [] l.pc = "pu_select_state" ->
            PgUpdSelectDim(db, l, "states", l.req.state_name, "state_id", "pu_select_crop")
      [] l.pc = "pu_select_crop" ->
            PgUpdSelectDim(db, l, "crops", l.req.crop_name, "crop_id", "pu_select_season")
      [] l.pc = "pu_select_season" ->
            LET r == PgUpdSelectDim(db, l, "seasons", l.req.season_name, "season_id",
                                    "pu_build")
            IN  IF r.l.pc = "pu_build" THEN PgAfterDims(r.db, r.l) ELSE r
      [] l.pc = "pu_update" ->
            LET doc == FindById(db.records, l.rid) IN
            IF doc = NoDoc
            THEN \* cursor.rowcount == 0
                 Respond(db, l, 404)
            ELSE IF UniqueViolatedBy(db, ApplySet(doc, l.update_doc))
            THEN Respond(db, l, PgErrorStatus("UniqueViolation"))
            ELSE [db |-> db,
                  l  |-> [l EXCEPT !.pending = ApplySet(doc, l.update_doc),
                                   !.pc = "pu_commit"]]
      [] l.pc = "pu_commit" ->
            Goto(AuditTrigger([db EXCEPT !.records =
                                   {d \in @ : d.id # l.rid} \cup {l.pending}],
                              "UPDATE", l.rid),
                 [l EXCEPT !.pending = NoDoc], "pu_select")
      [] l.pc = "pu_select" ->
            IF FindById(db.records, l.rid) = NoDoc
            THEN Respond(db, l, 500)
            ELSE Respond(db, l, 200)

PgDeleteStep(db, l) ==
    CASE l.pc = "pd_select" ->
            IF FindById(db.records, l.rid) = NoDoc
            THEN Respond(db, l, 404)
            ELSE Goto(db, l, "pd_delete")
      [] l.pc = "pd_delete" ->
            IF FindById(db.records, l.rid) = NoDoc
            THEN Respond(db, l, 404)
            ELSE Goto(db, l, "pd_commit")
      [] l.pc = "pd_commit" ->
            Respond(AuditTrigger([db EXCEPT !.records = {d \in @ : d.id # l.rid}],
                                 "DELETE", l.rid),
                    l, 204)

PgStep(db, l) ==
    CASE l.op = "create" -> PgCreateStep(db, l)
      [] l.op = "update" -> PgUpdateStep(db, l)
      [] l.op = "delete" -> PgDeleteStep(db, l)

\* the first statement of a handler's body
PgBodyEntry(op) ==
    CASE op = "create" -> "p_call_sp"
      [] op = "update" -> "pu_select_target"
      [] op = "delete" -> "pd_select"

\* "finally: if conn: cursor.close(); return_postgres_conn(conn)".  When
\* conn.cursor() raised, cursor is unbound: cursor.close() raises NameError and
\* return_postgres_conn is not reached
PgFinally(r) ==
    IF r.l.pc # "done" \/ ~r.l.conn
    THEN r
    ELSE IF r.l.cursor
    THEN [db |-> [r.db EXCEPT !.out = @ - 1],
          l  |-> [r.l EXCEPT !.conn = FALSE, !.cursor = FALSE]]
    ELSE [db |-> r.db, l |-> [r.l EXCEPT !.status = 500, !.conn = FALSE]]

\* a handler of the PostgreSQL router: "conn = None; try: conn =
\* get_postgres_conn(); cursor = conn.cursor(...)", the body, the finally clause
PgHandlerStep(db, l) ==
    CASE l.pc = "pg_getconn" ->
            [db |-> [db EXCEPT !.out = @ + 1],
             l  |-> [l EXCEPT !.conn = TRUE, !.pc = "pg_cursor"]]
      [] l.pc = "pg_cursor" ->
            [db |-> db, l |-> [l EXCEPT !.cursor = TRUE, !.pc = PgBodyEntry(l.op)]]
      [] OTHER -> PgFinally(PgStep(db, l))

PgStartCreate(req) == [Idle EXCEPT !.op = "create", !.req = req, !.pc = "pg_getconn"]
PgStartUpdate(id, req) ==
    [Idle EXCEPT !.op = "update", !.req = req, !.rid = id, !.pc = "pg_getconn"]
PgStartDelete(id) == [Idle EXCEPT !.op = "delete", !.rid = id, !.pc = "pg_getconn"]

---------------------------------------------------------------------------
(* Running a handler *)

\* a storage call raises (the store is unreachable): "except Exception" turns
\* it into 500, nothing is undone
Raise(db, l) ==
    [db |-> db, l |-> [l EXCEPT !.status = 500, !.raised = TRUE, !.pc = "done"]]

Step(b, db, l) == IF b = "mongodb" THEN MongoStep(db, l) ELSE PgHandlerStep(db, l)

\* the finally clause after a raise
Finally(b, r) == IF b = "postgres" THEN PgFinally(r) ELSE r

\* a whole request, alone on the store: step until the handler returns; the
\* storage call at failAt raises
RECURSIVE Run(_, _, _, _)
Run(b, db, l, failAt) ==
    IF l.pc = "done" THEN [db |-> db, l |-> l]
    ELSE IF l.pc = failAt THEN Finally(b, Raise(db, l))
    ELSE LET r == Step(b, db, l) IN Run(b, r.db, r.l, failAt)

\* the model's bounds on what a request may leave behind
Bounded(db) == db.nextId <= MaxRecords + 1 /\ Len(db.audit) <= MaxAudit

SetDB(db) ==
    /\ states' = db.states
    /\ crops' = db.crops
    /\ seasons' = db.seasons
    /\ crop_yield_records' = db.records
    /\ audit_log' = db.audit
    /\ nextId' = db.nextId
    /\ checked_out' = db.out

AllIdle == \A p \in Procs : procs[p].pc = "idle"

---------------------------------------------------------------------------
(* What the last request found and left: recorded with its status, so that *)
(* a property can relate the response to the store before the request      *)

TupleOf(d) == <<d.state_id, d.crop_id, d.season_id, d.year>>

\* the row a create resolves a name to in the current store (0: none)
CreateResolves(rows, name) ==
    IF backend = "mongodb" THEN FindOne(rows, name) ELSE FindOne(rows, Trim(name))

\* the tuple a create request's names and year resolve to
CreateTuple(req) ==
    <<CreateResolves(states, req.state_name), CreateResolves(crops, req.crop_name),
      CreateResolves(seasons, req.season_name), req.year>>

\* the tuple record doc would have after the update: supplied names resolved
\* against the lookup rows (0: no such row yet), unsupplied parts kept
TupleAfterUpdate(doc, req) ==
    <<IF req.state_name # NoName THEN FindOne(states, req.state_name) ELSE doc.state_id,
      IF req.crop_name # NoName THEN FindOne(crops, req.crop_name) ELSE doc.crop_id,
      IF req.season_name # NoName THEN FindOne(seasons, req.season_name)
      ELSE doc.season_id,
      IF req.year # None THEN req.year ELSE doc.year>>

\* every field the body supplies equals the record's current value
SuppliesCurrentValues(doc, req) ==
    /\ Supplied(req) # {}
    /\ req.state_name # NoName => states[doc.state_id] = req.state_name
    /\ req.crop_name # NoName => crops[doc.crop_id] = req.crop_name
    /\ req.season_name # NoName => seasons[doc.season_id] = req.season_name
    /\ req.year # None => doc.year = req.year
    /\ req.area # None => doc.area = req.area

\* some row's name equals the given name up to surrounding whitespace
HasRowUpToBlanks(rows, name) ==
    \E i \in 1..Len(rows) : Trim(rows[i]) = Trim(name)

\* the body names a lookup row, and each name it gives has a row up to blanks
NamesHaveRowsUpToBlanks(req) ==
    /\ Supplied(req) \cap {"state_name", "crop_name", "season_name"} # {}
    /\ req.state_name # NoName => HasRowUpToBlanks(states, req.state_name)
    /\ req.crop_name # NoName => HasRowUpToBlanks(crops, req.crop_name)
    /\ req.season_name # NoName => HasRowUpToBlanks(seasons, req.season_name)

\* a name that had a row: no row was added to its collection, and the record
\* the request wrote points at that row
ResolvedToExisting(rows, rowsAfter, name, key, rid, r) ==
    (name # NoName /\ FindOne(rows, name) # 0) =>
        /\ rowsAfter = rows
        /\ r.l.status \in {200, 201} =>
               FindById(r.db.records, rid)[key] = FindOne(rows, name)

ResolvedAllToExisting(req, rid, r) ==
    /\ ResolvedToExisting(states, r.db.states, req.state_name, "state_id", rid, r)
    /\ ResolvedToExisting(crops, r.db.crops, req.crop_name, "crop_id", rid, r)
    /\ ResolvedToExisting(seasons, r.db.seasons, req.season_name, "season_id", rid, r)

\* the audit entry a request owes when it succeeds: create for the id the store
\* hands out next, update and delete for the id in the path
AuditOwed(r) ==
    CASE r.l.op = "create" -> AuditEntry("INSERT", nextId)
      [] r.l.op = "update" -> AuditEntry("UPDATE", r.l.rid)
      [] r.l.op = "delete" -> AuditEntry("DELETE", r.l.rid)

\* the record an update of doc leaves: supplied names resolved against the
\* lookup rows of the store afterwards, supplied scalars overwritten
ExpectedAfterUpdate(doc, req, after) ==
    [id |-> doc.id,
     state_id |-> IF req.state_name # NoName
                  THEN FindOne(after.states, req.state_name) ELSE doc.state_id,
     crop_id |-> IF req.crop_name # NoName
                 THEN FindOne(after.crops, req.crop_name) ELSE doc.crop_id,
     season_id |-> IF req.season_name # NoName
                   THEN FindOne(after.seasons, req.season_name) ELSE doc.season_id,
     year |-> IF req.year # None THEN req.year ELSE doc.year,
     area |-> IF req.area # None THEN req.area ELSE doc.area]

\* the request's write is in the store r.db
CreateApplied(req, r) ==
    \E d \in r.db.records :
        /\ d.id = nextId
        /\ d.year = req.year /\ d.area = req.area
        /\ d.state_id \in 1..Len(r.db.states)
        /\ Trim(r.db.states[d.state_id]) = Trim(req.state_name)
        /\ d.crop_id \in 1..Len(r.db.crops)
        /\ Trim(r.db.crops[d.crop_id]) = Trim(req.crop_name)
        /\ d.season_id \in 1..Len(r.db.seasons)
        /\ Trim(r.db.seasons[d.season_id]) = Trim(req.season_name)

UpdateApplied(id, req, r) ==
    LET doc == FindById(crop_yield_records, id) IN
    doc # NoDoc /\ FindById(r.db.records, id) = ExpectedAfterUpdate(doc, req, r.db)

DeleteApplied(id, r) ==
    FindById(crop_yield_records, id) # NoDoc /\ FindById(r.db.records, id) = NoDoc

\* the body names a state, crop or season that has no row, not even up to blanks
NamesUnseen(req) ==
    \/ req.state_name # NoName /\ ~HasRowUpToBlanks(states, req.state_name)
    \/ req.crop_name # NoName /\ ~HasRowUpToBlanks(crops, req.crop_name)
    \/ req.season_name # NoName /\ ~HasRowUpToBlanks(seasons, req.season_name)

\* what is recorded of a request that ran from the current store to r
Observed(r, taken, noop, twins, resolved, holders) ==
    [op |-> r.l.op, status |-> r.l.status, failed_at |-> "none", applied |-> FALSE,
     rid |-> 0, absent |-> FALSE, again |-> FALSE, empty |-> FALSE,
     unseen |-> FALSE, no_state |-> FALSE,
     audited |-> (r.db.audit = Append(audit_log, AuditOwed(r))),
     audit_kept |-> (r.db.audit = audit_log),
     records_kept |-> (r.db.records = crop_yield_records),
     lookups_kept |-> (r.db.states = states /\ r.db.crops = crops
                          /\ r.db.seasons = seasons),
     taken |-> taken, noop |-> noop, twins |-> twins, resolved |-> resolved,
     holders |-> holders, invalid |-> FALSE, exact |-> FALSE,
     reply |-> <<>>, query |-> NoQuery,
     outcome |-> "none", csv |-> <<>>, rerun |-> FALSE, twin |-> FALSE]

\* create: was the tuple taken, how many records hold it afterwards
ObservedCreate(req, r) ==
    Observed(r,
             \E d \in crop_yield_records : TupleOf(d) = CreateTuple(req),
             FALSE,
             NamesHaveRowsUpToBlanks(req),
             ResolvedAllToExisting(req, nextId, r),
             Cardinality({d \in r.db.records : TupleOf(d) = CreateTuple(req)}))

\* update: would the new tuple be another record's, does the body change nothing
ObservedUpdate(id, req, r) ==
    LET doc == FindById(crop_yield_records, id) IN
    Observed(r,
             doc # NoDoc /\ \E b \in crop_yield_records :
                 b.id # id /\ TupleOf(b) = TupleAfterUpdate(doc, req),
             doc # NoDoc /\ SuppliesCurrentValues(doc, req),
             doc # NoDoc /\ NamesHaveRowsUpToBlanks(req),
             ResolvedAllToExisting(req, id, r),
             0)

\* delete: was the id without a record, was it the id the previous request
\* deleted
ObservedDelete(id, r) ==
    [Observed(r, FALSE, FALSE, FALSE, TRUE, 0) EXCEPT
        !.rid = id,
        !.absent = (FindById(crop_yield_records, id) = NoDoc),
        !.again = (last.op = "delete" /\ last.status = 204 /\ last.rid = id)]

NoLast == [op |-> "none", status |-> 0, failed_at |-> "none", applied |-> FALSE,
           rid |-> 0, absent |-> FALSE, again |-> FALSE, empty |-> FALSE,
           unseen |-> FALSE, no_state |-> FALSE,
           audited |-> FALSE, audit_kept |-> TRUE,
           records_kept |-> TRUE, lookups_kept |-> TRUE,
           taken |-> FALSE, noop |-> FALSE, twins |-> FALSE, resolved |-> TRUE,
           holders |-> 0, invalid |-> FALSE, exact |-> FALSE,
     reply |-> <<>>, query |-> NoQuery,
     outcome |-> "none", csv |-> <<>>, rerun |-> FALSE, twin |-> FALSE]

---------------------------------------------------------------------------
(* The handlers as actions *)

\* the request ran to its response
Completed(r, failAt, observed) ==
    /\ Bounded(r.db)
    /\ r.l.raised = (failAt # "none")
    /\ r.l.raised => faults < MaxFaults
    /\ SetDB(r.db)
    /\ last' = [observed EXCEPT !.failed_at = failAt]
    /\ faults' = IF r.l.raised THEN faults + 1 ELSE faults
    /\ UNCHANGED <<backend, mirror, procs, database>>

\* POST /api/mongodb/records/
MongoCreateRecord(req, failAt) ==
    /\ backend = "mongodb"
    /\ AllIdle
    /\ \E r \in {Run("mongodb", DB, StartCreate(req), failAt)} :
          Completed(r, failAt, [ObservedCreate(req, r) EXCEPT
                                   !.applied = CreateApplied(req, r)])

\* PUT /api/mongodb/records/{id}
MongoUpdateRecord(id, req, failAt) ==
    /\ backend = "mongodb"
    /\ AllIdle
    /\ \E r \in {Run("mongodb", DB, StartUpdate(id, req), failAt)} :
          Completed(r, failAt, [ObservedUpdate(id, req, r) EXCEPT
                                   !.applied = UpdateApplied(id, req, r),
                                   !.absent = (FindById(crop_yield_records, id) = NoDoc),
                                   !.empty = (Supplied(req) = {}),
                                   !.unseen = NamesUnseen(req)])

\* DELETE /api/mongodb/records/{id}
MongoDeleteRecord(id, failAt) ==
    /\ backend = "mongodb"
    /\ AllIdle
    /\ \E r \in {Run("mongodb", DB, StartDelete(id), failAt)} :
          Completed(r, failAt, [ObservedDelete(id, r) EXCEPT
                                   !.applied = DeleteApplied(id, r)])

\* POST /api/postgres/records/
PgCreateRecord(req, failAt) ==
    /\ backend = "postgres"
    /\ AllIdle
    /\ \E r \in {Run("postgres", DB, PgStartCreate(req), failAt)} :
          Completed(r, failAt, [ObservedCreate(req, r) EXCEPT
                                   !.applied = CreateApplied(req, r),
                                   !.no_state = ~HasRowUpToBlanks(states, req.state_name)])

\* PUT /api/postgres/records/{id}
PgUpdateRecord(id, req, failAt) ==
    /\ backend = "postgres"
    /\ AllIdle
    /\ \E r \in {Run("postgres", DB, PgStartUpdate(id, req), failAt)} :
          Completed(r, failAt, [ObservedUpdate(id, req, r) EXCEPT
                                   !.applied = UpdateApplied(id, req, r),
                                   !.absent = (FindById(crop_yield_records, id) = NoDoc),
                                   !.empty = (Supplied(req) = {}),
                                   !.unseen = NamesUnseen(req)])

\* DELETE /api/postgres/records/{id}
PgDeleteRecord(id, failAt) ==
    /\ backend = "postgres"
    /\ AllIdle
    /\ \E r \in {Run("postgres", DB, PgStartDelete(id), failAt)} :
          Completed(r, failAt, [ObservedDelete(id, r) EXCEPT
                                   !.applied = DeleteApplied(id, r)])

\* db/postgres/import_data.py, import_lookup_tables: one name of the CSV
PgImportLookup(kind, raw) ==
    /\ backend = "postgres"
    /\ AllIdle
    /\ SetDB([DB EXCEPT ![kind] = ImportLookupRow(@, raw)])
    /\ last' = [NoLast EXCEPT !.op = "import"]
    /\ UNCHANGED <<backend, faults, mirror, procs, database>>

DimNames(kind) ==
    CASE kind = "states" -> StateNames
      [] kind = "crops" -> CropNames
      [] kind = "seasons" -> SeasonNames

---------------------------------------------------------------------------
(* Specification: requests one at a time, the store always answers *)

\* app/database.py as imported (lines 12, 76): no pool, no client; "made" and
\* "given" are the instances created and the instances callers received since
\* the last shutdown, "misplaced" whether a connection was handed to a pool
\* other than the one it was taken from
NoDatabase ==
    [postgres_pool |-> None, mongo_client |-> None, next |-> 1,
     pools_made |-> {}, clients_made |-> {},
     pools_given |-> {}, clients_given |-> {}, misplaced |-> FALSE]

InitStore ==
    /\ states = <<>>
    /\ crops = <<>>
    /\ seasons = <<>>
    /\ crop_yield_records = {}
    /\ audit_log = <<>>
    /\ nextId = 1
    /\ last = NoLast
    /\ faults = 0
    /\ checked_out = 0
    /\ mirror = NoMirror
    /\ procs = [p \in Procs |-> Idle]
    /\ database = NoDatabase

Init ==
    /\ backend \in {"mongodb", "postgres"}
    /\ InitStore

Next ==
    \/ \E req \in CreateReqs : MongoCreateRecord(req, "none")
    \/ \E id \in RecordIds, req \in UpdateReqs : MongoUpdateRecord(id, req, "none")
    \/ \E id \in RecordIds : MongoDeleteRecord(id, "none")
    \/ \E req \in CreateReqs : PgCreateRecord(req, "none")
    \/ \E id \in RecordIds, req \in UpdateReqs : PgUpdateRecord(id, req, "none")
    \/ \E id \in RecordIds : PgDeleteRecord(id, "none")
    \/ \E kind \in {"states", "crops", "seasons"} :
          \E raw \in DimNames(kind) : PgImportLookup(kind, raw)

Spec == Init /\ [][Next]_vars

---------------------------------------------------------------------------
(* Properties of the sequential specification *)

\* C1: in the MongoDB backend, with requests running one at a time, no two
\* documents of crop_yield_records have the same (state_id, crop_id,
\* season_id, year)
C1_UniqueTupleSequential ==
    backend = "mongodb" =>
        \A d1, d2 \in crop_yield_records : TupleOf(d1) = TupleOf(d2) => d1 = d2

\* two records are stored and an update of one of them has just succeeded
C1_Witness ==
    /\ backend = "mongodb"
    /\ Cardinality(crop_yield_records) = 2
    /\ last.op = "update" /\ last.status = 200

NoDuplicateNames(rows) ==
    \A i, j \in 1..Len(rows) : rows[i] = rows[j] => i = j

\* C5: with requests running one at a time, every lookup collection holds at
\* most one row per name, and a create or update that names an existing row
\* uses that row's id and inserts no row into that collection
C5_LookupIdempotent ==
    /\ NoDuplicateNames(states) /\ NoDuplicateNames(crops) /\ NoDuplicateNames(seasons)
    /\ last.op \in {"create", "update"} => last.resolved

\* a second record was created under the existing rows of the lookups
C5_Witness ==
    /\ backend = "mongodb"
    /\ last.op = "create" /\ last.status = 201 /\ last.lookups_kept
    /\ Cardinality(crop_yield_records) = 2

\* C7 (as claimed): a create or update whose names differ from existing rows'
\* names at most by surrounding whitespace resolves to those rows: it is not
\* refused for an unknown name and creates no lookup row
C7_TrimmedLookup ==
    (last.op \in {"create", "update"} /\ last.twins) =>
        last.lookups_kept /\ last.status # 400

\* C8 (as claimed): an update that supplies only values equal to the record's
\* current values succeeds with 200; it is neither 409 nor 404
C8_NoOpUpdateSucceeds ==
    (last.op = "update" /\ last.noop) => last.status = 200

\* C9: an update that would give record A the tuple of a different record B
\* returns 409 and leaves the fact records unchanged
C9_CollidingUpdateConflict ==
    (last.op = "update" /\ last.taken) => last.status = 409 /\ last.records_kept

\* an update onto another record's tuple has just been answered
C9_Witness ==
    /\ last.op = "update" /\ last.taken /\ last.status = 409
    /\ Cardinality(crop_yield_records) = 2

\* C11: every create, update or delete that returns success adds exactly one
\* audit entry, with operation INSERT, UPDATE or DELETE respectively and the
\* affected record's id as its target
C11_OneAuditEntryPerSuccess ==
    (last.op \in {"create", "update", "delete"} /\ last.status \in {200, 201, 204}) =>
        last.audited

\* a create, an update and a delete have succeeded, the delete last
C11_Witness ==
    /\ last.op = "delete" /\ last.status = 204 /\ last.audited
    /\ Len(audit_log) = 3

\* C13: a delete of an id that has no record returns 404 and changes nothing;
\* a delete of the id the previous request deleted returns 404
C13_DeleteMissingNotFound ==
    last.op = "delete" =>
        /\ last.absent =>
               /\ last.status = 404
               /\ last.records_kept /\ last.lookups_kept /\ last.audit_kept
        /\ last.again => last.status = 404

\* the id just deleted was deleted a second time
C13_Witness ==
    /\ last.op = "delete" /\ last.again /\ last.absent /\ last.status = 404
    /\ crop_yield_records # {}

\* C14 (as claimed): an update that supplies no field returns 400 and creates
\* no audit entry, no lookup row and no change to any fact record
C14_EmptyUpdateInvalid ==
    (last.op = "update" /\ last.empty) =>
        /\ last.status = 400
        /\ last.audit_kept /\ last.lookups_kept /\ last.records_kept

\* C14 (amended): an update that supplies no field returns 400 when the record
\* exists and 404 when it does not (existence is checked first); either way it
\* creates no audit entry, no lookup row and no change to any fact record
C14_EmptyUpdateInvalidIfFound ==
    (last.op = "update" /\ last.empty) =>
        /\ last.status = IF last.absent THEN 404 ELSE 400
        /\ last.audit_kept /\ last.lookups_kept /\ last.records_kept

\* an existing record was sent an update without fields
C14_Witness ==
    /\ last.op = "update" /\ last.empty /\ ~last.absent /\ last.status = 400
    /\ crop_yield_records # {}

\* C16: sp_insert_crop_yield_record rejects a create whose state name has no
\* row in states: the call raises, the request fails, and afterwards neither a
\* fact record nor a state row for that name exists
C16_UnknownStateRejected ==
    (backend = "postgres" /\ last.op = "create" /\ last.no_state) =>
        /\ last.status >= 400
        /\ last.records_kept /\ last.lookups_kept /\ last.audit_kept

\* the crop and the season were loaded, the state was not
C16_Witness ==
    /\ backend = "postgres" /\ last.op = "create" /\ last.no_state
    /\ last.status = 500
    /\ states = <<>> /\ crops # <<>> /\ seasons # <<>>

\* C20: the state_id, crop_id and season_id of every fact record are ids of
\* rows that exist in states, crops and seasons; a delete removes no lookup row
C20_ReferentialIntegrity ==
    /\ \A d \in crop_yield_records :
          /\ d.state_id \in 1..Len(states)
          /\ d.crop_id \in 1..Len(crops)
          /\ d.season_id \in 1..Len(seasons)
    /\ last.op = "delete" => last.lookups_kept

\* a record was deleted, another one still points at the lookup rows
C20_Witness ==
    /\ last.op = "delete" /\ last.status = 204 /\ last.lookups_kept
    /\ crop_yield_records # {}
    /\ states # <<>>

---------------------------------------------------------------------------
(* Specification: updates that name a crop no request has created and no   *)
(* import has loaded                                                       *)

UnseenUpdateReqs ==
    [state_name : {NoName}, crop_name : {Wheat}, season_name : {NoName},
     year : Years \cup {None}, area : {None}]

UnseenCreateReqs == {req \in CreateReqs : req.area = 10}

NextUnseen ==
    \/ \E req \in UnseenCreateReqs : MongoCreateRecord(req, "none")
    \/ \E id \in RecordIds, req \in UnseenUpdateReqs : MongoUpdateRecord(id, req, "none")
    \/ \E req \in UnseenCreateReqs : PgCreateRecord(req, "none")
    \/ \E id \in RecordIds, req \in UnseenUpdateReqs : PgUpdateRecord(id, req, "none")
    \/ \E kind \in {"states", "crops", "seasons"} :
          \E raw \in DimNames(kind) : PgImportLookup(kind, raw)

SpecUnseen == Init /\ [][NextUnseen]_vars

\* C15 (as claimed): an update of an existing record that supplies a name with
\* no row creates the row and points the record at the new id, in both backends
C15_UpdateCreatesLookupRow ==
    (last.op = "update" /\ last.unseen /\ ~last.absent) =>
        last.status = 200 /\ last.applied /\ ~last.lookups_kept

\* C25: an update of an id without a record is answered NotFound before any
\* name is resolved: no lookup row is created and nothing is written, also
\* when the body gives names that have no row yet
C25_MissingTargetBeforeResolution ==
    (last.op = "update" /\ last.absent) =>
        /\ last.status = StatusNotFound
        /\ last.lookups_kept /\ last.records_kept /\ last.audit_kept

\* an update of a missing id that named a row nobody had created
C25_Witness ==
    /\ last.op = "update" /\ last.absent /\ last.unseen
    /\ last.status = StatusNotFound /\ last.lookups_kept

\* C19 (as claimed): Invalid, NotFound, Conflict and StorageUnavailable are
\* reported by every handler with four pairwise different status codes, and a
\* failure nobody anticipated is reported as an internal failure, never as
\* success.  NotFound covers the record and, on update, a name without a row.
C19_ErrorKindsDistinctStatus ==
    /\ Cardinality({StatusInvalid, StatusNotFound, StatusConflict, StatusInternal}) = 4
    /\ last.failed_at # "none" => last.status = StatusInternal
    /\ last.failed_at = "none" =>
          /\ (last.op \in {"update", "delete"} /\ last.absent) =>
                 last.status = StatusNotFound
          /\ (last.op = "update" /\ ~last.absent /\ last.empty) =>
                 last.status = StatusInvalid
          /\ (last.op = "update" /\ ~last.absent /\ last.unseen) =>
                 last.status # StatusInvalid
          /\ (last.op \in {"create", "update"} /\ last.taken) =>
                 last.status = StatusConflict

---------------------------------------------------------------------------
(* Specification: every request is sent to both routers, the MongoDB store *)
(* in the store variables and the PostgreSQL store in mirror.db            *)

\* how a caller classifies a response
OutcomeClass(status) ==
    CASE status \in {200, 201} -> "success"
      [] status = StatusInvalid -> "invalid"
      [] status = StatusNotFound -> "not_found"
      [] status = StatusConflict -> "conflict"
      [] OTHER -> "failure"

\* every name the body gives is a row of the PostgreSQL lookup tables
NamedInPg(db, req) ==
    /\ req.state_name # NoName => \E i \in 1..Len(db.states) : db.states[i] = req.state_name
    /\ req.crop_name # NoName => \E i \in 1..Len(db.crops) : db.crops[i] = req.crop_name
    /\ req.season_name # NoName => \E i \in 1..Len(db.seasons) : db.seasons[i] = req.season_name

\* both handlers answered: m from the MongoDB router, p from the PostgreSQL one
BothCompleted(m, p, observed, named) ==
    /\ Bounded(m.db) /\ Bounded(p.db)
    /\ SetDB(m.db)
    /\ last' = observed
    /\ mirror' = [db |-> p.db, status |-> p.l.status, named |-> named,
                  early |-> mirror.differ,
                  differ |-> mirror.differ \/
                      OutcomeClass(m.l.status) # OutcomeClass(p.l.status)]
    /\ UNCHANGED <<backend, faults, procs, database>>

\* POST /api/mongodb/records/ and POST /api/postgres/records/, same body
BothCreate(req) ==
    /\ backend = "mongodb"
    /\ AllIdle
    /\ \E m \in {Run("mongodb", DB, StartCreate(req), "none")},
          p \in {Run("postgres", mirror.db, PgStartCreate(req), "none")} :
          BothCompleted(m, p, ObservedCreate(req, m), NamedInPg(mirror.db, req))

\* PUT /api/mongodb/records/{id} and PUT /api/postgres/records/{id}, same body
BothUpdate(id, req) ==
    /\ backend = "mongodb"
    /\ AllIdle
    /\ \E m \in {Run("mongodb", DB, StartUpdate(id, req), "none")},
          p \in {Run("postgres", mirror.db, PgStartUpdate(id, req), "none")} :
          BothCompleted(m, p, ObservedUpdate(id, req, m), NamedInPg(mirror.db, req))

\* DELETE /api/mongodb/records/{id} and DELETE /api/postgres/records/{id}
BothDelete(id) ==
    /\ backend = "mongodb"
    /\ AllIdle
    /\ \E m \in {Run("mongodb", DB, StartDelete(id), "none")},
          p \in {Run("postgres", mirror.db, PgStartDelete(id), "none")} :
          BothCompleted(m, p, ObservedDelete(id, m), TRUE)

\* import_lookup_tables loads one name into the PostgreSQL lookup tables
BothImportLookup(kind, raw) ==
    /\ backend = "mongodb"
    /\ AllIdle
    /\ mirror' = [mirror EXCEPT !.db[kind] = ImportLookupRow(@, raw),
                                !.named = FALSE]
    /\ last' = [NoLast EXCEPT !.op = "import"]
    /\ UNCHANGED <<backend, states, crops, seasons, crop_yield_records,
                   audit_log, nextId, faults, checked_out, procs, database>>

\* the bodies sent to both routers: nothing, a year, a state name
BothUpdateReqs ==
    {req \in UpdateReqs : Supplied(req) \in {{}, {"year"}, {"state_name"}}}

InitBoth ==
    /\ backend = "mongodb"
    /\ InitStore

NextBoth ==
    \/ \E req \in UnseenCreateReqs : BothCreate(req)
    \/ \E id \in RecordIds, req \in BothUpdateReqs : BothUpdate(id, req)
    \/ \E id \in RecordIds : BothDelete(id)
    \/ \E kind \in {"states", "crops", "seasons"} :
          \E raw \in DimNames(kind) : BothImportLookup(kind, raw)

SpecBoth == InitBoth /\ [][NextBoth]_vars

\* C17 (as claimed): the same sequence of create, update and delete requests
\* gets the same outcome class from both backends at every step; stated for
\* the steps where the backends agreed so far and the PostgreSQL lookup
\* tables hold every name of the request
C17_BackendsInterchangeable ==
    (last.op \in {"create", "update", "delete"} /\ ~mirror.early /\ mirror.named) =>
        OutcomeClass(last.status) = OutcomeClass(mirror.status)

---------------------------------------------------------------------------
(* Specification: the document store may fail under a request.  Every      *)
(* storage call of the handlers sits in "try: ... except Exception", which *)
(* answers 500; the calls already made are not undone.                     *)

\* storage calls that may raise: in create the find_one after the state row
\* was resolved and log_audit's insert_one after the record was written, in
\* update log_audit's insert_one after update_one, in delete log_audit's
\* insert_one after delete_one
CreateFailPoints == {"c_find_crop", "c_audit"}
UpdateFailPoints == {"u_audit"}
DeleteFailPoints == {"d_audit"}

\* calls of the PostgreSQL handlers that may raise: taking the connection from
\* the pool, conn.cursor() on a connection the server has closed, and the
\* statements of the body
PgCreateFailPoints == {"pg_getconn", "pg_cursor", "p_call_sp"}
PgUpdateFailPoints == {"pg_cursor", "pu_update"}
PgDeleteFailPoints == {"pg_cursor"}

\* the update bodies tried against the failing store
FaultUpdateReqs ==
    {req \in UpdateReqs : Supplied(req) \in {{}, {"year"}, {"state_name"}}}

InitFault ==
    /\ backend \in {"mongodb", "postgres"}
    /\ InitStore

NextFault ==
    \/ \E req \in CreateReqs, failAt \in CreateFailPoints \cup {"none"} :
          MongoCreateRecord(req, failAt)
    \/ \E id \in RecordIds, req \in FaultUpdateReqs,
          failAt \in UpdateFailPoints \cup {"none"} :
          MongoUpdateRecord(id, req, failAt)
    \/ \E id \in RecordIds, failAt \in DeleteFailPoints \cup {"none"} :
          MongoDeleteRecord(id, failAt)
    \/ \E req \in CreateReqs, failAt \in PgCreateFailPoints \cup {"none"} :
          PgCreateRecord(req, failAt)
    \/ \E id \in RecordIds, req \in FaultUpdateReqs,
          failAt \in PgUpdateFailPoints \cup {"none"} :
          PgUpdateRecord(id, req, failAt)
    \/ \E id \in RecordIds, failAt \in PgDeleteFailPoints \cup {"none"} :
          PgDeleteRecord(id, failAt)
    \/ \E kind \in {"states", "crops", "seasons"} :
          \E raw \in DimNames(kind) : PgImportLookup(kind, raw)

SpecFault == InitFault /\ [][NextFault]_vars

\* C10 (as claimed): whenever a create or update returns an error status, the
\* fact records and the lookup rows are exactly as they were before the request
C10_AtomicOnError ==
    (last.op \in {"create", "update"} /\ last.status >= 400) =>
        last.records_kept /\ last.lookups_kept

\* C12: in the MongoDB backend, when log_audit's insert fails after the record
\* was inserted, updated or deleted, that write stays applied
C12_AuditFailureKeepsWrite ==
    (backend = "mongodb" /\ last.failed_at \in {"c_audit", "u_audit", "d_audit"}) =>
        last.applied

\* a delete whose audit insert failed: the record is gone, no entry was written
C12_Witness ==
    /\ last.op = "delete" /\ last.failed_at = "d_audit"
    /\ last.applied /\ last.audit_kept /\ last.status = 500

\* C18 (as claimed): every PostgreSQL handler gives its connection back to the
\* pool on every exit path, also when a call fails right after the connection
\* was taken: with no request in flight no connection is checked out
C18_ConnectionsReturned ==
    (backend = "postgres" /\ AllIdle) => checked_out = 0

---------------------------------------------------------------------------
(* Specification: two creates of the MongoDB router in flight at once.     *)
(* FastAPI runs the synchronous handlers in a thread pool; the handlers    *)
(* share one MongoClient and take no lock, so their storage calls          *)
(* interleave freely.                                                      *)


\* a request arrives at a free worker
MongoBeginCreate(p, req) ==
    /\ procs[p].pc = "idle"
    /\ procs' = [procs EXCEPT ![p] = StartCreate(req)]
    /\ UNCHANGED <<backend, states, crops, seasons, crop_yield_records, audit_log,
                   nextId, last, faults, checked_out, mirror, database>>

\* the handler of worker p makes its next storage call
MongoProcStep(p) ==
    /\ procs[p].pc \notin {"idle", "done"}
    /\ \E r \in {MongoStep(DB, procs[p])} :
          /\ Bounded(r.db)
          /\ SetDB(r.db)
          /\ procs' = [procs EXCEPT ![p] = r.l]
    /\ UNCHANGED <<backend, last, faults, mirror, database>>

\* the response is sent, the worker is free again
ProcReturn(p) ==
    /\ procs[p].pc = "done"
    /\ procs' = [procs EXCEPT ![p] = Idle]
    /\ last' = [NoLast EXCEPT !.op = procs[p].op, !.status = procs[p].status]
    /\ UNCHANGED <<backend, states, crops, seasons, crop_yield_records, audit_log,
                   nextId, faults, checked_out, mirror, database>>

InitMongoConc ==
    /\ backend = "mongodb"
    /\ InitStore

NextMongoConc ==
    \/ \E p \in Procs, req \in ConcCreateReqs : MongoBeginCreate(p, req)
    \/ \E p \in Procs : MongoProcStep(p)
    \/ \E p \in Procs : ProcReturn(p)

SpecMongoConc == InitMongoConc /\ [][NextMongoConc]_vars

\* worker p is in a create that has inserted its record
Inserted(p) == procs[p].op = "create" /\ procs[p].inserted_id # 0

\* the tuple worker p's create resolved
ResolvedTuple(p) ==
    <<procs[p].state_id, procs[p].crop_id, procs[p].season_id, procs[p].req.year>>

\* worker p's create makes its insert_one call
InsertsRecord(p) ==
    /\ procs[p].pc = "c_insert_record"
    /\ procs'[p].pc = "c_audit"

\* C3: in the MongoDB backend two interleaved creates for the same tuple can
\* both pass the existence check and both insert: a create that passed the check
\* stores a new record with its tuple even when, by the time of its insert,
\* another create has stored that tuple
C3_ConcurrentCreatesBothInsert ==
    [][\A p \in Procs :
          InsertsRecord(p) =>
              \E d \in crop_yield_records' \ crop_yield_records :
                  d.id = procs'[p].inserted_id /\ TupleOf(d) = ResolvedTuple(p)]_vars

\* both creates were answered 201 and the tuple is stored twice
C3_Witness ==
    /\ \A p \in Procs : Inserted(p) /\ procs[p].pc = "done" /\ procs[p].status = 201
    /\ ResolvedTuple(1) = ResolvedTuple(2)
    /\ \E d1, d2 \in crop_yield_records : d1 # d2 /\ TupleOf(d1) = TupleOf(d2)

\* C6 (as claimed): two requests that concurrently resolve the same unseen
\* name never leave two rows with that name
C6_NoDuplicateRowsConcurrent ==
    /\ NoDuplicateNames(states)
    /\ NoDuplicateNames(crops)
    /\ NoDuplicateNames(seasons)

---------------------------------------------------------------------------
(* Specification: two creates of the PostgreSQL router in flight at once.  *)
(* Each handler takes its own connection from the pool, so each runs in    *)
(* its own transaction; the lookup tables were filled by the import.       *)

\* the tuple the stored procedure would insert for worker p's request
PgTuple(req) ==
    <<FindOne(states, Trim(req.state_name)), FindOne(crops, Trim(req.crop_name)),
      FindOne(seasons, Trim(req.season_name)), req.year>>

\* the unique index makes an INSERT wait while another transaction holds an
\* uncommitted row with the same key
PgBlocked(p) ==
    /\ procs[p].pc = "p_call_sp"
    /\ \E q \in Procs \ {p} :
          /\ procs[q].pending # NoDoc
          /\ TupleOf(procs[q].pending) = PgTuple(procs[p].req)

PgBeginCreate(p, req) ==
    /\ procs[p].pc = "idle"
    /\ procs' = [procs EXCEPT ![p] = PgStartCreate(req)]
    /\ UNCHANGED <<backend, states, crops, seasons, crop_yield_records, audit_log,
                   nextId, last, faults, checked_out, mirror, database>>

\* the handler of worker p makes its next call on its connection
PgProcStep(p) ==
    /\ procs[p].pc \notin {"idle", "done"}
    /\ ~PgBlocked(p)
    /\ \E r \in {PgHandlerStep(DB, procs[p])} :
          /\ Bounded(r.db)
          /\ SetDB(r.db)
          /\ procs' = [procs EXCEPT ![p] = r.l]
    /\ UNCHANGED <<backend, last, faults, mirror, database>>

InitPgConc ==
    /\ backend = "postgres"
    /\ states = <<Assam>>
    /\ crops = <<Rice>>
    /\ seasons = <<Kharif>>
    /\ crop_yield_records = {}
    /\ audit_log = <<>>
    /\ nextId = 1
    /\ last = NoLast
    /\ faults = 0
    /\ checked_out = 0
    /\ mirror = NoMirror
    /\ procs = [p \in Procs |-> Idle]
    /\ database = NoDatabase

NextPgConc ==
    \/ \E p \in Procs, req \in CreateReqs : PgBeginCreate(p, req)
    \/ \E p \in Procs : PgProcStep(p)
    \/ \E p \in Procs : ProcReturn(p)

SpecPgConc == InitPgConc /\ [][NextPgConc]_vars

\* worker p's stored-procedure call inserted a row for its request's tuple
PgInserted(p) == procs[p].op = "create" /\ procs[p].inserted_id # 0

\* C4: in the PostgreSQL backend the check and the write of a create are one
\* stored-procedure call in one transaction: no two committed records share a
\* tuple, of two creates in flight for the same tuple at most one has inserted,
\* and the other, once answered, has 409 and no row
C4_AtMostOneCommits ==
    /\ \A d1, d2 \in crop_yield_records : TupleOf(d1) = TupleOf(d2) => d1 = d2
    /\ \A p, q \in Procs :
          (/\ p # q
           /\ procs[p].op = "create" /\ procs[q].op = "create"
           /\ PgTuple(procs[p].req) = PgTuple(procs[q].req)
           /\ PgInserted(p)) =>
              /\ ~PgInserted(q)
              /\ procs[q].pc = "done" => procs[q].status = 409

\* one create committed its record while the other, started before that commit
\* for the same tuple, was answered 409
C4_Witness ==
    \E p, q \in Procs :
        /\ p # q
        /\ PgInserted(p) /\ procs[p].pc = "done" /\ procs[p].status = 201
        /\ procs[q].op = "create" /\ procs[q].pc = "done" /\ procs[q].status = 409
        /\ PgTuple(procs[p].req) = PgTuple(procs[q].req)
        /\ Cardinality(crop_yield_records) = 1

---------------------------------------------------------------------------
(* Specification: bodies as the client sends them, the request models     *)
(* validate them before the handler runs                                   *)

\* years around both ends of the accepted range
RawYears == {YearMin - 1, YearMin, YearMax, YearMax + 1}

\* a measurement: negative, zero, positive, or left out
RawAreas == {-2, 0, 10, None}

RawCreateReqs ==
    [state_name : {Assam}, crop_name : {Rice}, season_name : {Kharif},
     year : RawYears, area : RawAreas]

\* MongoCropYieldRecordCreate accepts everything
MongoCreateValid_Unconstrained(req) == TRUE

\* MongoCropYieldRecordCreate: year ge / le, measurements Optional with ge=0
MongoCreateValid(req) ==
    /\ req.year >= YearMin /\ req.year <= YearMax
    /\ (req.area = None \/ req.area >= 0)

\* CropYieldRecordCreate: year ge / le, measurements required with ge=0
PgCreateValid(req) ==
    /\ req.year >= YearMin /\ req.year <= YearMax
    /\ req.area # None /\ req.area >= 0

\* the route: a body the model refuses is answered without calling the handler
Validated(valid, r, db, l) ==
    IF valid THEN r
    ELSE [db |-> db, l |-> [l EXCEPT !.status = StatusRejected, !.pc = "done"]]

\* the body has a year out of range or a negative measurement
OutOfRange(req) ==
    \/ req.year \notin YearMin..YearMax
    \/ req.area # None /\ req.area < 0

\* POST /api/mongodb/records/ with any body
MongoPostRecord(req) ==
    /\ backend = "mongodb"
    /\ AllIdle
    /\ \E r \in {Validated(MongoCreateValid(req),
                           Run("mongodb", DB, StartCreate(req), "none"),
                           DB, StartCreate(req))} :
          Completed(r, "none", [ObservedCreate(req, r) EXCEPT
                                   !.applied = CreateApplied(req, r),
                                   !.invalid = OutOfRange(req)])

\* POST /api/postgres/records/ with any body
PgPostRecord(req) ==
    /\ backend = "postgres"
    /\ AllIdle
    /\ \E r \in {Validated(PgCreateValid(req),
                           Run("postgres", DB, PgStartCreate(req), "none"),
                           DB, PgStartCreate(req))} :
          Completed(r, "none", [ObservedCreate(req, r) EXCEPT
                                   !.applied = CreateApplied(req, r),
                                   !.invalid = OutOfRange(req)])

NextValid ==
    \/ \E req \in RawCreateReqs : MongoPostRecord(req)
    \/ \E req \in RawCreateReqs : PgPostRecord(req)
    \/ \E id \in RecordIds : MongoDeleteRecord(id, "none")
    \/ \E id \in RecordIds : PgDeleteRecord(id, "none")
    \/ \E kind \in {"states", "crops", "seasons"} :
          \E raw \in DimNames(kind) : PgImportLookup(kind, raw)

SpecValid == Init /\ [][NextValid]_vars

\* C21: a create whose year is outside [1990, 2030] or that has a negative
\* measurement is refused before any lookup or write: the records, the lookup
\* rows and the audit log are what they were
C21_InvalidCreateRejected ==
    (last.op = "create" /\ last.invalid) =>
        /\ last.status = StatusRejected
        /\ last.records_kept /\ last.lookups_kept /\ last.audit_kept
        /\ ~last.applied

\* an out-of-range create was refused by a store that holds a record
C21_Witness ==
    /\ last.op = "create" /\ last.invalid
    /\ last.status = StatusRejected
    /\ crop_yield_records # {}

---------------------------------------------------------------------------
(* Specification: PUT bodies as JSON objects, a key is present or not.     *)
(* In a parsed body the model writes NoName for a name that is None and    *)
(* for the empty string: the handlers test names by truth value, which     *)
(* tells neither apart.                                                    *)

\* the empty string
Blank == <<>>

\* JSON bodies of PUT /records/{id}: the keys present and their values
UpdateBodies ==
    [keys : {{"year"}, {"state_name"}, {"state_name", "year"}},
     state_name : {Assam, Blank}, year : Years]

\* MongoCropYieldRecordUpdate / CropYieldRecordUpdate built from the body: a
\* missing key is None
ParseUpdate(body) ==
    [state_name |-> IF "state_name" \in body.keys THEN body.state_name ELSE NoName,
     crop_name |-> NoName, season_name |-> NoName,
     year |-> IF "year" \in body.keys THEN body.year ELSE None,
     area |-> None]

\* the record id of store r.db differs from the one before the request in
\* exactly the keys of the body, which have the body's values, and no other
\* record differs
ExactlySupplied(id, body, r) ==
    LET before == FindById(crop_yield_records, id)
        after == FindById(r.db.records, id)
    IN  /\ before # NoDoc /\ after # NoDoc
        /\ IF "state_name" \in body.keys
           THEN /\ after.state_id \in 1..Len(r.db.states)
                /\ r.db.states[after.state_id] = body.state_name
           ELSE after.state_id = before.state_id
        /\ after.year = (IF "year" \in body.keys THEN body.year ELSE before.year)
        /\ after.crop_id = before.crop_id /\ after.season_id = before.season_id
        /\ after.area = before.area
        /\ {d \in r.db.records : d.id # id} = {d \in crop_yield_records : d.id # id}

\* PUT /api/mongodb/records/{id}
MongoPutBody(id, body) ==
    /\ backend = "mongodb"
    /\ AllIdle
    /\ \E r \in {Run("mongodb", DB, StartUpdate(id, ParseUpdate(body)), "none")} :
          Completed(r, "none", [ObservedUpdate(id, ParseUpdate(body), r) EXCEPT
                                   !.rid = id,
                                   !.absent = (FindById(crop_yield_records, id) = NoDoc),
                                   !.exact = ExactlySupplied(id, body, r)])

\* PUT /api/postgres/records/{id}
PgPutBody(id, body) ==
    /\ backend = "postgres"
    /\ AllIdle
    /\ \E r \in {Run("postgres", DB, PgStartUpdate(id, ParseUpdate(body)), "none")} :
          Completed(r, "none", [ObservedUpdate(id, ParseUpdate(body), r) EXCEPT
                                   !.rid = id,
                                   !.absent = (FindById(crop_yield_records, id) = NoDoc),
                                   !.exact = ExactlySupplied(id, body, r)])

NextBody ==
    \/ \E req \in UnseenCreateReqs : MongoCreateRecord(req, "none")
    \/ \E req \in UnseenCreateReqs : PgCreateRecord(req, "none")
    \/ \E id \in RecordIds, body \in UpdateBodies : MongoPutBody(id, body)
    \/ \E id \in RecordIds, body \in UpdateBodies : PgPutBody(id, body)
    \/ \E kind \in {"states", "crops", "seasons"} :
          \E raw \in DimNames(kind) : PgImportLookup(kind, raw)

SpecBody == Init /\ [][NextBody]_vars

\* C26 (as claimed): a successful update changes exactly the fields the body
\* supplies, to the values it supplies; every other field of the record and
\* every other record keep their values
C26_UpdateChangesExactlySupplied ==
    (last.op = "update" /\ last.status = 200) => last.exact

---------------------------------------------------------------------------
(* Read endpoints *)

Max(S) == CHOOSE x \in S : \A y \in S : x >= y

RECURSIVE ByIdDesc(_)
\* sort("_id", -1): the documents, newest _id first
ByIdDesc(S) ==
    IF S = {} THEN <<>>
    ELSE LET d == CHOOSE x \in S : \A y \in S : x.id >= y.id
         IN  <<d>> \o ByIdDesc(S \ {d})

RECURSIVE ByIdAsc(_)
\* the documents, oldest _id first
ByIdAsc(S) ==
    IF S = {} THEN <<>>
    ELSE LET d == CHOOSE x \in S : \A y \in S : x.id <= y.id
         IN  <<d>> \o ByIdAsc(S \ {d})

\* created_at of a row: set when the row is inserted and by nothing else
PgCreatedAt(d) == d.id

RECURSIVE ByCreatedAtDesc(_)
\* ORDER BY cyr.created_at DESC
ByCreatedAtDesc(S) ==
    IF S = {} THEN <<>>
    ELSE LET d == CHOOSE x \in S : \A y \in S : PgCreatedAt(x) >= PgCreatedAt(y)
         IN  <<d>> \o ByCreatedAtDesc(S \ {d})

\* MongoCropYieldRecordResponse(id=..., state_id=..., ...)
MongoResponse(doc) ==
    [id |-> doc.id, state_id |-> doc.state_id, crop_id |-> doc.crop_id,
     season_id |-> doc.season_id, year |-> doc.year, area |-> doc.area]

\* the rows of crop_yield_records JOIN states JOIN crops JOIN seasons
PgJoined(db) ==
    {d \in db.records : /\ d.state_id \in 1..Len(db.states)
                        /\ d.crop_id \in 1..Len(db.crops)
                        /\ d.season_id \in 1..Len(db.seasons)}

\* CropYieldRecordResponse(**dict(row))
PgResponse(db, d) ==
    [record_id |-> d.id, state_name |-> db.states[d.state_id],
     crop_name |-> db.crops[d.crop_id], season_name |-> db.seasons[d.season_id],
     crop_year |-> d.year, area |-> d.area, created_at |-> PgCreatedAt(d)]

\* the value is a str
IsStr(v) == v < OidTag

\* MongoCropYieldRecordResponse: state_id, crop_id and season_id are str; any
\* other value raises a ValidationError
MongoResponseValid(doc) ==
    IsStr(doc.state_id) /\ IsStr(doc.crop_id) /\ IsStr(doc.season_id)

\* the response of a handler that found doc; the ValidationError is caught
\* by "except Exception" and answered 500
MongoRespond(doc) ==
    IF MongoResponseValid(doc)
    THEN [status |-> 200, reply |-> <<MongoResponse(doc)>>]
    ELSE [status |-> StatusInternal, reply |-> <<>>]

\* mutant: find_one(sort=[("_id", 1)])
MongoGetLatest_Oldest(db) ==
    IF db.records = {} THEN [status |-> 404, reply |-> <<>>]
    ELSE MongoRespond(ByIdAsc(db.records)[1])

\* get_latest_record (mongodb.py): find_one(sort=[("_id", -1)])
MongoGetLatest(db) ==
    IF db.records = {} THEN [status |-> 404, reply |-> <<>>]
    ELSE MongoRespond(ByIdDesc(db.records)[1])

\* get_record (mongodb.py): find_one({"_id": obj_id})
MongoGet(db, id) ==
    IF FindById(db.records, id) = NoDoc THEN [status |-> 404, reply |-> <<>>]
    ELSE MongoRespond(FindById(db.records, id))

\* get_latest_record (postgres.py): ORDER BY created_at DESC LIMIT 1
PgGetLatest(db) ==
    IF PgJoined(db) = {} THEN [status |-> 404, reply |-> <<>>]
    ELSE [status |-> 200,
          reply |-> <<PgResponse(db, ByCreatedAtDesc(PgJoined(db))[1])>>]

\* a read request answered: the store is as it was
AnsweredTo(op, a, q, outcome) ==
    /\ AllIdle
    /\ last' = [NoLast EXCEPT !.op = op, !.status = a.status, !.reply = a.reply,
                              !.query = q, !.outcome = outcome]
    /\ UNCHANGED <<backend, states, crops, seasons, crop_yield_records, audit_log,
                   nextId, faults, checked_out, mirror, procs, database>>

Answered(op, a, q) == AnsweredTo(op, a, q, "none")

\* GET /api/mongodb/records/latest
MongoGetLatestRecord ==
    /\ backend = "mongodb"
    /\ Answered("latest", MongoGetLatest(DB), NoQuery)

\* GET /api/mongodb/records/{id}
MongoGetRecord(id) ==
    /\ backend = "mongodb"
    /\ Answered("get", MongoGet(DB, id), NoQuery)

\* GET /api/postgres/records/latest
PgGetLatestRecord ==
    /\ backend = "postgres"
    /\ Answered("latest", PgGetLatest(DB), NoQuery)

\* the id field of a response item
ReplyId(item) == IF backend = "mongodb" THEN item.id ELSE item.record_id

\* the year field of a response item
ReplyYear(item) == IF backend = "mongodb" THEN item.year ELSE item.crop_year

\* the lower-case form of a letter of the model's names
Lower(ch) ==
    CASE ch = "A" -> "a"
      [] ch = "R" -> "r"
      [] ch = "K" -> "k"
      [] ch = "W" -> "w"
      [] OTHER -> ch

\* the text occurs in the name, letter case ignored
ContainsIgnoreCase(name, text) ==
    \E start \in 1..(Len(name) - Len(text) + 1) :
        \A i \in 1..Len(text) : Lower(name[start + i - 1]) = Lower(text[i])

\* {"$regex": pattern, "$options": "i"}: the pattern is a regular expression
\* searched anywhere in the name; "." stands for any character
RegexSearch(name, pattern) ==
    \E start \in 1..(Len(name) - Len(pattern) + 1) :
        \A i \in 1..Len(pattern) :
            \/ pattern[i] = "."
            \/ Lower(name[start + i - 1]) = Lower(pattern[i])

\* name ILIKE '%' || pattern || '%': "_" stands for any character
ILikeContains(name, pattern) ==
    \E start \in 1..(Len(name) - Len(pattern) + 1) :
        \A i \in 1..Len(pattern) :
            \/ pattern[i] = "_"
            \/ Lower(name[start + i - 1]) = Lower(pattern[i])

\* Query(10, ge=1, le=100)
LimitOf(q) == IF q.limit = None THEN LimitDefault ELSE q.limit

\* the query parameters pass the Query(...) constraints
QueryValid(q) == LimitOf(q) >= 1 /\ LimitOf(q) <= LimitMax /\ q.offset >= 0

\* mutant: the page is cut without skipping
Page_NoSkip(rows, offset, limit) == SubSeq(rows, 1, Min({Len(rows), limit}))

\* .skip(offset).limit(limit) / LIMIT %s OFFSET %s
Page(rows, offset, limit) ==
    SubSeq(rows, offset + 1, Min({Len(rows), offset + limit}))

\* list_records (mongodb.py 128-173)
MongoList(db, q) ==
    LET state_ids == {i \in 1..Len(db.states) : RegexSearch(db.states[i], q.state)}
        crop_ids == {i \in 1..Len(db.crops) : RegexSearch(db.crops[i], q.crop)}
        found == {d \in db.records :
                     /\ q.state # <<>> => d.state_id \in state_ids
                     /\ q.crop # <<>> => d.crop_id \in crop_ids
                     /\ q.year # None => d.year = q.year}
        page == Page(ByIdDesc(found), q.offset, LimitOf(q))
    IN  IF ~QueryValid(q) THEN [status |-> StatusRejected, reply |-> <<>>]
        ELSE IF q.state # <<>> /\ state_ids = {} THEN [status |-> 200, reply |-> <<>>]
        ELSE IF q.crop # <<>> /\ crop_ids = {} THEN [status |-> 200, reply |-> <<>>]
        ELSE IF \E i \in 1..Len(page) : ~MongoResponseValid(page[i])
        THEN [status |-> StatusInternal, reply |-> <<>>]
        ELSE [status |-> 200,
              reply |-> [i \in 1..Len(page) |-> MongoResponse(page[i])]]

\* list_records (postgres.py 128-174)
PgList(db, q) ==
    LET found == {d \in PgJoined(db) :
                     /\ q.state # <<>> => ILikeContains(db.states[d.state_id], q.state)
                     /\ q.crop # <<>> => ILikeContains(db.crops[d.crop_id], q.crop)
                     /\ q.year # None => d.year = q.year}
        page == Page(ByCreatedAtDesc(found), q.offset, LimitOf(q))
    IN  IF ~QueryValid(q) THEN [status |-> StatusRejected, reply |-> <<>>]
        ELSE [status |-> 200,
              reply |-> [i \in 1..Len(page) |-> PgResponse(db, page[i])]]

\* GET /api/mongodb/records/
MongoListRecords(q) ==
    /\ backend = "mongodb"
    /\ Answered("list", MongoList(DB, q), q)

\* GET /api/postgres/records/
PgListRecords(q) ==
    /\ backend = "postgres"
    /\ Answered("list", PgList(DB, q), q)

---------------------------------------------------------------------------
(* Specification: writes and reads, one request at a time *)

\* list requests that page through all records or through one year
PageQueries ==
    [limit : {None, 0, 1, 2, LimitMax + 1}, offset : {0, 1},
     state : {<<>>}, crop : {<<>>}, year : {None, 2020}]

\* list requests that filter by name
FilterQueries ==
    [limit : {None}, offset : {0}, state : {<<>>, <<"a">>, <<".">>},
     crop : {<<>>, <<"_">>}, year : {None, 2020}]

ReadUpdateReqs == {req \in UpdateReqs : Supplied(req) = {"area"}}

NextRead ==
    \/ \E req \in UnseenCreateReqs : MongoCreateRecord(req, "none")
    \/ \E id \in RecordIds, req \in ReadUpdateReqs : MongoUpdateRecord(id, req, "none")
    \/ \E id \in RecordIds : MongoDeleteRecord(id, "none")
    \/ \E req \in UnseenCreateReqs : PgCreateRecord(req, "none")
    \/ \E id \in RecordIds, req \in ReadUpdateReqs : PgUpdateRecord(id, req, "none")
    \/ \E id \in RecordIds : PgDeleteRecord(id, "none")
    \/ \E kind \in {"states", "crops", "seasons"} :
          \E raw \in DimNames(kind) : PgImportLookup(kind, raw)
    \/ MongoGetLatestRecord
    \/ PgGetLatestRecord
    \/ \E q \in PageQueries \cup FilterQueries : MongoListRecords(q)
    \/ \E q \in PageQueries \cup FilterQueries : PgListRecords(q)

SpecRead == Init /\ [][NextRead]_vars

\* C22: GET latest answers with the record created last among the records
\* that exist, whatever was updated since, and with NotFound when there is no
\* record
C22_LatestIsNewest ==
    last.op = "latest" =>
        IF crop_yield_records = {}
        THEN last.status = StatusNotFound /\ last.reply = <<>>
        ELSE /\ last.status = 200
             /\ Len(last.reply) = 1
             /\ ReplyId(last.reply[1]) = Max({d.id : d \in crop_yield_records})
             /\ ReplyYear(last.reply[1]) =
                    FindById(crop_yield_records, ReplyId(last.reply[1])).year

\* latest answered with record 2 after the older record 1 had been updated
C22_Witness ==
    /\ last.op = "latest" /\ last.status = 200
    /\ ReplyId(last.reply[1]) = 2
    /\ FindById(crop_yield_records, 1) # NoDoc
    /\ \E i \in 1..Len(audit_log) :
          audit_log[i].operation = "UPDATE" /\ audit_log[i].document_id = 1
    /\ audit_log[Len(audit_log)].operation = "UPDATE"

\* the records a list request without name filter is about
YearMatches(q) ==
    {d \in crop_yield_records : q.year # None => d.year = q.year}

\* C27: list answers with positions offset .. offset+limit-1 of the matching
\* records, newest first; limit is within 1..100 and 10 when not given, and
\* the answer never holds more than limit records
C27_ListPagination ==
    (last.op = "list" /\ last.query.state = <<>> /\ last.query.crop = <<>>) =>
        LET q == last.query
            limit == IF q.limit = None THEN 10 ELSE q.limit
            n == Cardinality(YearMatches(q))
        IN  IF limit < 1 \/ limit > 100
            THEN last.status = StatusRejected /\ last.reply = <<>>
            ELSE /\ last.status = 200
                 /\ Len(last.reply) <= limit
                 /\ Len(last.reply) = Max({0, Min({limit, n - q.offset})})
                 /\ \A i \in 1..Len(last.reply) :
                       \E d \in YearMatches(q) :
                          /\ d.id = ReplyId(last.reply[i])
                          /\ Cardinality({e \in YearMatches(q) : e.id > d.id})
                                = q.offset + i - 1

\* with two records stored, the second page of size one holds the older one
C27_Witness ==
    /\ last.op = "list" /\ last.status = 200
    /\ last.query.offset = 1 /\ last.query.limit = 1
    /\ last.query.state = <<>> /\ last.query.year = None
    /\ Cardinality(crop_yield_records) = 2
    /\ Len(last.reply) = 1
    /\ ReplyId(last.reply[1]) = Min({d.id : d \in crop_yield_records})

\* the records whose names contain the filter texts and whose year is the
\* filter year
FilterMatches(q) ==
    {d \in crop_yield_records :
        /\ q.state # <<>> => ContainsIgnoreCase(states[d.state_id], q.state)
        /\ q.crop # <<>> => ContainsIgnoreCase(crops[d.crop_id], q.crop)
        /\ q.year # None => d.year = q.year}

\* C23 (as claimed): a list request with a state or crop filter returns
\* exactly the records whose state or crop name contains the filter text,
\* letter case ignored, and a year filter keeps exactly the records of that
\* year
C23_FilterContainsIgnoreCase ==
    (last.op = "list" /\ last.status = 200
        /\ last.query.limit = None /\ last.query.offset = 0) =>
        {ReplyId(last.reply[i]) : i \in 1..Len(last.reply)}
            = {d.id : d \in FilterMatches(last.query)}

---------------------------------------------------------------------------
(* Specification: predict_mongo.py run against the MongoDB router *)

\* the keys prepare_data reads with data_dict.get (area stands for the five
\* measurements)
PredictReads == {"crop_name", "state_name", "season_name", "crop_year", "area"}

\* prepare_data: the mapped row; a key the response lacks is None
MappedData(data_dict) ==
    [Crop |-> Get(data_dict, "crop_name", NoName),
     State |-> Get(data_dict, "state_name", NoName),
     Season |-> Get(data_dict, "season_name", NoName),
     Crop_Year |-> Get(data_dict, "crop_year", None),
     Area |-> Get(data_dict, "area", None)]

\* prepare_data: df['Crop_Year'].astype(int) raises on a missing year, the
\* except clause returns None
PrepareData(data_dict) ==
    IF MappedData(data_dict).Crop_Year = None THEN "error" ELSE "prepared"

\* the script: fetch_data_from_api, prepare_data, model.predict
PredictScript(a) ==
    IF a.status # 200 THEN "no_data"
    ELSE IF PrepareData(a.reply[1]) = "error" THEN "not_prepared"
    ELSE "predicted"

\* python predict_mongo.py: GET API_URL, then the script's steps
MongoPredict ==
    /\ backend = "mongodb"
    /\ AnsweredTo("predict", MongoGetLatest(DB), NoQuery,
                  PredictScript(MongoGetLatest(DB)))

NextPredict ==
    \/ \E req \in UnseenCreateReqs : MongoCreateRecord(req, "none")
    \/ \E id \in RecordIds, req \in ReadUpdateReqs : MongoUpdateRecord(id, req, "none")
    \/ \E id \in RecordIds : MongoDeleteRecord(id, "none")
    \/ MongoPredict

InitPredict ==
    /\ backend = "mongodb"
    /\ InitStore

SpecPredict == InitPredict /\ [][NextPredict]_vars

\* C30 (as claimed): every key prepare_data reads is a key of the response of
\* the latest endpoint the script calls, and for a stored record with all
\* measurements set the script reaches the prediction step
C30_PredictReadsPresent ==
    (last.op = "predict" /\ last.status = 200
        /\ \A d \in crop_yield_records : d.area # None) =>
        /\ PredictReads \subseteq DOMAIN last.reply[1]
        /\ last.outcome = "predicted"

---------------------------------------------------------------------------
(* Specification: db/mongodb/import_data.py and the MongoDB router on one  *)
(* database                                                                *)

\* at most this many rows in a CSV file
MaxCsvRows == 2

\* a row of crop_yield.csv (Area stands for the six measurement columns)
CsvRows ==
    [State : StateNames, Crop : CropNames, Season : SeasonNames,
     Crop_Year : Years, Area : Areas]

RECURSIVE SeqsUpTo(_, _)
\* the sequences over S of length 1..n
SeqsUpTo(S, n) ==
    IF n = 0 THEN {}
    ELSE {<<x>> : x \in S} \cup
         {Append(t, x) : t \in SeqsUpTo(S, n - 1), x \in S}

CsvFiles == SeqsUpTo(CsvRows, MaxCsvRows)

\* import_lookup: UpdateOne({field: v}, {"$setOnInsert": ...}, upsert=True)
UpsertLookup(rows, name) ==
    IF \E i \in 1..Len(rows) : rows[i] = name THEN rows ELSE Append(rows, name)

RECURSIVE ImportLookups(_, _, _)
\* import_csv, lines 75-77: the stripped names of column col, row by row
ImportLookups(rows, csv, col) ==
    IF csv = <<>> THEN rows
    ELSE ImportLookups(UpsertLookup(rows, Trim(Head(csv)[col])), Tail(csv), col)

\* get_lookup_ids: {doc[field]: doc["_id"]}, a later document with the same
\* name replaces an earlier one; the _id is an ObjectId
LookupId(rows, name) ==
    OidTag + Max({i \in 1..Len(rows) : rows[i] = name})

\* import_csv, lines 93-104: record_data of a row
RecordData(db, row) ==
    [state_id |-> LookupId(db.states, Trim(row.State)),
     crop_id |-> LookupId(db.crops, Trim(row.Crop)),
     season_id |-> LookupId(db.seasons, Trim(row.Season)),
     year |-> row.Crop_Year, area |-> row.Area]

\* import_csv, lines 106-121: one row; update_crop_yield (51-58) and
\* insert_crop_yield (45-49) write the audit entry
ImportRow(db, row) ==
    LET data == RecordData(db, row)
        same == WithTuple(db.records, data.state_id, data.crop_id,
                          data.season_id, data.year)
    IN  IF same # {}
        THEN LET existing == CHOOSE d \in same : \A e \in same : d.id <= e.id IN
             IF existing.area # data.area
             THEN [db EXCEPT !.records = (@ \ {existing}) \cup
                                 {[existing EXCEPT !.area = data.area]},
                             !.audit = Append(@, AuditEntry("UPDATE", existing.id))]
             ELSE db
        ELSE [db EXCEPT !.records = @ \cup
                               {[id |-> db.nextId, state_id |-> data.state_id,
                                 crop_id |-> data.crop_id,
                                 season_id |-> data.season_id,
                                 year |-> data.year, area |-> data.area]},
                        !.nextId = @ + 1,
                        !.audit = Append(@, AuditEntry("INSERT", db.nextId))]

RECURSIVE ImportRows(_, _)
\* import_csv, line 87: for _, row in df.iterrows()
ImportRows(db, csv) ==
    IF csv = <<>> THEN db ELSE ImportRows(ImportRow(db, Head(csv)), Tail(csv))

\* import_csv
ImportCsv(db, csv) ==
    ImportRows([db EXCEPT !.states = ImportLookups(@, csv, "State"),
                          !.crops = ImportLookups(@, csv, "Crop"),
                          !.seasons = ImportLookups(@, csv, "Season")],
               csv)

\* python import_data.py on the file csv
MongoImportCsv(csv) ==
    /\ backend = "mongodb"
    /\ AllIdle
    /\ \E db \in {ImportCsv(DB, csv)} :
          /\ db.nextId <= MaxRecords + 1
          /\ Len(db.audit) <= MaxAudit + MaxCsvRows
          /\ SetDB(db)
          /\ last' = [NoLast EXCEPT
                         !.op = "import_csv", !.csv = csv,
                         !.rerun = (last.op = "import_csv" /\ last.csv = csv),
                         !.records_kept = (db.records = crop_yield_records),
                         !.lookups_kept = (db.states = states /\ db.crops = crops
                                              /\ db.seasons = seasons),
                         !.audit_kept = (db.audit = audit_log)]
    /\ UNCHANGED <<backend, faults, mirror, procs, database>>

\* the row a lookup reference points at, however the reference is stored
RowOf(ref) == IF IsStr(ref) THEN ref ELSE ref - OidTag

\* the store holds a record written by the import for the state, crop,
\* season and year of the body
ImportedTwin(req) ==
    \E d \in crop_yield_records :
        /\ ~IsStr(d.state_id)
        /\ states[RowOf(d.state_id)] = req.state_name
        /\ crops[RowOf(d.crop_id)] = req.crop_name
        /\ seasons[RowOf(d.season_id)] = req.season_name
        /\ d.year = req.year

\* POST /api/mongodb/records/ on the database the import wrote to
MongoCreateBesideImport(req) ==
    /\ backend = "mongodb"
    /\ AllIdle
    /\ \E r \in {Run("mongodb", DB, StartCreate(req), "none")} :
          Completed(r, "none", [ObservedCreate(req, r) EXCEPT
                                   !.applied = CreateApplied(req, r),
                                   !.twin = ImportedTwin(req)])

NextImport ==
    \/ \E csv \in CsvFiles : MongoImportCsv(csv)
    \/ \E req \in UnseenCreateReqs : MongoCreateBesideImport(req)
    \/ MongoGetLatestRecord
    \/ MongoListRecords(NoQuery)
    \/ \E id \in RecordIds : MongoGetRecord(id)

InitImport ==
    /\ backend = "mongodb"
    /\ InitStore

SpecImport == InitImport /\ [][NextImport]_vars

\* C24 (as claimed): a second run of the import on the same CSV file inserts
\* no record, updates none, adds no lookup row and writes no audit entry,
\* for every CSV file
C24_ImportRerunChangesNothing ==
    (last.op = "import_csv" /\ last.rerun) =>
        last.records_kept /\ last.lookups_kept /\ last.audit_kept

\* C28 (as claimed): a record written by the import and an API create for
\* the same state, crop, season and year are the same natural key, so the
\* create is answered Conflict; latest, list and get answer with the
\* imported record as a valid response
C28_ImportAndApiShareKey ==
    /\ (last.op = "create" /\ last.twin) => last.status = StatusConflict
    /\ (last.op \in {"latest", "list"} /\ crop_yield_records # {}) =>
          last.status = 200
    /\ (last.op = "get" /\ last.status # StatusNotFound) => last.status = 200

---------------------------------------------------------------------------
(* app/database.py: the pool and the client are created on first use by   *)
(* handlers that run on worker threads                                      *)

\* at most this many pools and clients are constructed in one behaviour
MaxInstances == 3

\* a worker thread outside any call: no local pool, no connection held
Caller == [pc |-> "idle", pool |-> None, conn |-> None]

\* a request arrives and its handler calls get_postgres_conn or get_mongo_db
EnterDatabase(p, kind) ==
    /\ procs[p].pc = "idle"
    /\ procs' = [procs EXCEPT ![p].pc =
                    IF kind = "postgres" THEN "pool_test" ELSE "client_test"]
    /\ UNCHANGED <<backend, states, crops, seasons, crop_yield_records, audit_log,
                   nextId, last, faults, checked_out, mirror, database>>

\* init_postgres_pool: if _postgres_pool is None
InitPostgresPoolTest(p) ==
    /\ procs[p].pc = "pool_test"
    /\ procs' = [procs EXCEPT ![p].pc =
                    IF database.postgres_pool = None THEN "pool_make"
                    ELSE "pool_return"]
    /\ UNCHANGED <<backend, states, crops, seasons, crop_yield_records, audit_log,
                   nextId, last, faults, checked_out, mirror, database>>

\* init_postgres_pool: _postgres_pool = pool.ThreadedConnectionPool(...)
InitPostgresPoolMake(p) ==
    /\ procs[p].pc = "pool_make"
    /\ database.next <= MaxInstances
    /\ database' = [database EXCEPT !.postgres_pool = database.next,
                                    !.next = @ + 1,
                                    !.pools_made = @ \cup {database.next}]
    /\ procs' = [procs EXCEPT ![p].pc = "pool_return"]
    /\ UNCHANGED <<backend, states, crops, seasons, crop_yield_records, audit_log,
                   nextId, last, faults, checked_out, mirror>>

\* init_postgres_pool: return _postgres_pool, bound to pool in
\* get_postgres_conn
InitPostgresPoolReturn(p) ==
    /\ procs[p].pc = "pool_return"
    /\ procs' = [procs EXCEPT ![p].pc = "getconn",
                              ![p].pool = database.postgres_pool]
    /\ database' = [database EXCEPT !.pools_given = @ \cup {database.postgres_pool}]
    /\ UNCHANGED <<backend, states, crops, seasons, crop_yield_records, audit_log,
                   nextId, last, faults, checked_out, mirror>>

\* get_postgres_conn: return pool.getconn(); the handler then works with
\* the connection
GetPostgresConn(p) ==
    /\ procs[p].pc = "getconn"
    /\ procs' = [procs EXCEPT ![p].pc = "handler", ![p].conn = procs[p].pool]
    /\ checked_out' = checked_out + 1
    /\ UNCHANGED <<backend, states, crops, seasons, crop_yield_records, audit_log,
                   nextId, last, faults, mirror, database>>

\* return_postgres_conn, called in the handler's finally: the connection is
\* put into whatever _postgres_pool is now; a pool that did not hand the
\* connection out refuses it (PoolError) and the connection stays out
ReturnPostgresConn(p) ==
    /\ procs[p].pc = "handler"
    /\ LET home == database.postgres_pool = procs[p].conn IN
       /\ checked_out' = IF home THEN checked_out - 1 ELSE checked_out
       /\ database' = [database EXCEPT !.misplaced = @ \/ ~home]
    /\ procs' = [procs EXCEPT ![p] = Caller]
    /\ last' = [NoLast EXCEPT !.op = "return_postgres_conn"]
    /\ UNCHANGED <<backend, states, crops, seasons, crop_yield_records, audit_log,
                   nextId, faults, mirror>>

\* get_mongo_client: if _mongo_client is None
GetMongoClientTest(p) ==
    /\ procs[p].pc = "client_test"
    /\ procs' = [procs EXCEPT ![p].pc =
                    IF database.mongo_client = None THEN "client_make"
                    ELSE "client_return"]
    /\ UNCHANGED <<backend, states, crops, seasons, crop_yield_records, audit_log,
                   nextId, last, faults, checked_out, mirror, database>>

\* get_mongo_client: _mongo_client = MongoClient(mongo_uri)
GetMongoClientMake(p) ==
    /\ procs[p].pc = "client_make"
    /\ database.next <= MaxInstances
    /\ database' = [database EXCEPT !.mongo_client = database.next,
                                    !.next = @ + 1,
                                    !.clients_made = @ \cup {database.next}]
    /\ procs' = [procs EXCEPT ![p].pc = "client_return"]
    /\ UNCHANGED <<backend, states, crops, seasons, crop_yield_records, audit_log,
                   nextId, last, faults, checked_out, mirror>>

\* get_mongo_client: return _mongo_client; get_mongo_db indexes it and the
\* handler runs
GetMongoClientReturn(p) ==
    /\ procs[p].pc = "client_return"
    /\ database' = [database EXCEPT !.clients_given = @ \cup {database.mongo_client}]
    /\ procs' = [procs EXCEPT ![p] = Caller]
    /\ last' = [NoLast EXCEPT !.op = "get_mongo_client"]
    /\ UNCHANGED <<backend, states, crops, seasons, crop_yield_records, audit_log,
                   nextId, faults, checked_out, mirror>>

\* lifespan shutdown, after the requests have ended: close_postgres_pool and
\* close_mongo_clients close what exists and reset the globals
Shutdown ==
    /\ \A p \in Procs : procs[p].pc = "idle"
    /\ database.postgres_pool # None \/ database.mongo_client # None
    /\ database' = [NoDatabase EXCEPT !.next = database.next]
    /\ checked_out' = 0
    /\ last' = [NoLast EXCEPT !.op = "shutdown"]
    /\ UNCHANGED <<backend, states, crops, seasons, crop_yield_records, audit_log,
                   nextId, faults, mirror, procs>>

NextDatabase ==
    \/ \E p \in Procs, kind \in {"postgres", "mongodb"} : EnterDatabase(p, kind)
    \/ \E p \in Procs : InitPostgresPoolTest(p)
    \/ \E p \in Procs : InitPostgresPoolMake(p)
    \/ \E p \in Procs : InitPostgresPoolReturn(p)
    \/ \E p \in Procs : GetPostgresConn(p)
    \/ \E p \in Procs : ReturnPostgresConn(p)
    \/ \E p \in Procs : GetMongoClientTest(p)
    \/ \E p \in Procs : GetMongoClientMake(p)
    \/ \E p \in Procs : GetMongoClientReturn(p)
    \/ Shutdown

InitDatabase ==
    /\ backend \in {"mongodb", "postgres"}
    /\ states = <<>>
    /\ crops = <<>>
    /\ seasons = <<>>
    /\ crop_yield_records = {}
    /\ audit_log = <<>>
    /\ nextId = 1
    /\ last = NoLast
    /\ faults = 0
    /\ checked_out = 0
    /\ mirror = NoMirror
    /\ procs = [p \in Procs |-> Caller]
    /\ database = NoDatabase

SpecDatabase == InitDatabase /\ [][NextDatabase]_vars

\* C29 (as claimed): between two shutdowns at most one pool and at most one
\* client are created, also when the first calls run concurrently; every
\* caller receives that one instance; and a connection is always returned
\* to the pool it was taken from
C29_OneInstanceBetweenShutdowns ==
    /\ Cardinality(database.pools_made) <= 1
    /\ Cardinality(database.clients_made) <= 1
    /\ database.pools_given \subseteq database.pools_made
    /\ database.clients_given \subseteq database.clients_made
    /\ Cardinality(database.pools_given) <= 1
    /\ Cardinality(database.clients_given) <= 1
    /\ ~database.misplaced

============================================================================
